---- MODULE Spec2Model ----
(***************************************************************************)
(* StreamDeck Remote: configuration merge engine, tile validator, tile     *)
(* routes and the admission layer (token check, rate limiter) of the       *)
(* server (src/unnamed/part_004, the current server.js).                   *)
(*                                                                         *)
(* JavaScript strings are TLA+ strings; Len, \o, Head, Tail and SubSeq     *)
(* act on them character by character.  JSON values that reach the code    *)
(* untyped (request bodies, the config file) are tagged records, see       *)
(* Undef .. Obj below.                                                     *)
(***************************************************************************)
EXTENDS Integers, Sequences, FiniteSets, TLC

(***************************************************************************)
(* Strings                                                                 *)
(***************************************************************************)

\* White space removed by String.prototype.trim (the members a TLA+ string
\* literal can spell).
IsWs(c) == c \in {" ", "\t", "\n", "\r", "\f"}

\* The class [\u0000-\u001f\u007f] of safeTrim (the members a TLA+ string
\* literal can spell; they are all white space as well).
IsCtrl(c) == c \in {"\t", "\n", "\r", "\f"}

CharAt(s, i) == SubSeq(s, i, i)

\* String.prototype.trim: from the first to the last character that is not
\* white space
Trim(s) ==
    LET n == Len(s)
        first == CHOOSE i \in 1..n : ~IsWs(CharAt(s, i)) /\ \A j \in 1..(i - 1) : IsWs(CharAt(s, j))
        last == IF ~IsWs(CharAt(s, n)) THEN n
                ELSE CHOOSE i \in 1..n :
                        ~IsWs(CharAt(s, i)) /\ \A j \in (i + 1)..n : IsWs(CharAt(s, j))
    IN IF \A i \in 1..n : IsWs(CharAt(s, i)) THEN ""
       ELSE SubSeq(s, first, last)

\* s.replace(/[\u0000-\u001f\u007f]/g, ""), by halves
RECURSIVE StripCtrl(_)
StripCtrl(s) ==
    IF \A i \in 1..Len(s) : ~IsCtrl(CharAt(s, i)) THEN s
    ELSE IF Len(s) = 1 THEN ""
    ELSE LET h == Len(s) \div 2
         IN StripCtrl(SubSeq(s, 1, h)) \o StripCtrl(SubSeq(s, h + 1, Len(s)))

\* s.slice(0, n)
Slice0(s, n) == IF Len(s) > n THEN SubSeq(s, 1, n) ELSE s

\* safeTrim applied to a value that is already a string
safeTrimStr(s, maxLen) == Slice0(StripCtrl(Trim(s)), maxLen)

\* s.includes(sub)
Includes(s, sub) ==
    \E i \in 1..(Len(s) - Len(sub) + 1) : SubSeq(s, i, i + Len(sub) - 1) = sub

\* the characters of s, as spread (...s) yields them
Chars(s) == [i \in 1..Len(s) |-> CharAt(s, i)]

\* the entries of list f at the indices in I, in ascending order of index
RECURSIVE AtRange(_, _, _, _)
AtRange(f, I, lo, hi) ==
    IF lo > hi THEN <<>>
    ELSE IF lo = hi THEN (IF lo \in I THEN <<f[lo]>> ELSE <<>>)
    ELSE LET mid == (lo + hi) \div 2
         IN AtRange(f, I, lo, mid) \o AtRange(f, I, mid + 1, hi)

AtIndices(f, I) == AtRange(f, I, 1, Len(f))

(***************************************************************************)
(* Untyped JSON / JavaScript values                                        *)
(***************************************************************************)
Undef == [k |-> "undef"]
Null == [k |-> "null"]
S(s) == [k |-> "str", s |-> s]
N(n) == [k |-> "num", n |-> n]
B(b) == [k |-> "bool", b |-> b]
Arr(a) == [k |-> "arr", a |-> a]
Obj(o) == [k |-> "obj", o |-> o]

EmptyRec == [x \in {} |-> Undef]

\* typeof v === "object" && v !== null   (arrays included)
IsObjLike(v) == v.k \in {"obj", "arr"}

IsStr(v) == v.k = "str"

\* v.key for a v that is neither null nor undefined
Prop(v, key) == IF v.k = "obj" /\ key \in DOMAIN v.o THEN v.o[key] ELSE Undef

\* v?.key
OptProp(v, key) == IF v.k \in {"undef", "null"} THEN Undef ELSE Prop(v, key)

\* reading a property of v throws a TypeError
PropThrows(v) == v.k \in {"undef", "null"}

Truthy(v) == CASE v.k = "undef" -> FALSE
               [] v.k = "null" -> FALSE
               [] v.k = "str" -> v.s # ""
               [] v.k = "num" -> v.n # 0
               [] v.k = "bool" -> v.b
               [] OTHER -> TRUE

Digit(d) == SubSeq("0123456789", d + 1, d + 1)

RECURSIVE NatToStr(_)
NatToStr(n) == IF n < 10 THEN Digit(n) ELSE NatToStr(n \div 10) \o Digit(n % 10)

IntToStr(n) == IF n < 0 THEN "-" \o NatToStr(0 - n) ELSE NatToStr(n)

\* String(v)
RECURSIVE ToStr(_)
RECURSIVE JoinComma(_)
JoinComma(a) ==
    IF a = <<>> THEN ""
    ELSE LET h == IF Head(a).k \in {"undef", "null"} THEN "" ELSE ToStr(Head(a))
         IN IF Len(a) = 1 THEN h ELSE h \o "," \o JoinComma(Tail(a))
ToStr(v) == CASE v.k = "undef" -> "undefined"
              [] v.k = "null" -> "null"
              [] v.k = "str" -> v.s
              [] v.k = "num" -> IntToStr(v.n)
              [] v.k = "bool" -> IF v.b THEN "true" ELSE "false"
              [] v.k = "arr" -> JoinComma(v.a)
              [] OTHER -> "[object Object]"

\* String(v || "")
StrOr(v) == IF Truthy(v) THEN ToStr(v) ELSE ""

\* safeTrim(value, maxLen)
safeTrim(v, maxLen) == safeTrimStr(StrOr(v), maxLen)

(***************************************************************************)
(* State                                                                   *)
(***************************************************************************)
VARIABLES
    config,            \* the process-wide configuration object
    disk,              \* CONFIG_PATH, its .bak sibling, and whether the disk is writable
    fsys,              \* files and directories fileExists / dirExists see
    disableAutodetect, \* DISABLE_AUTODETECT (STREAMDECK_DISABLE_AUTODETECT)
    rateState,         \* rateState: client key -> [t0, n]
    now,               \* Date.now()
    req,               \* the request handled last
    res,               \* the response to it
    rateLog,           \* history: the requests past express.json, in order, where kept
    mergeIn,           \* argument of mergeWithDefaults under study
    mergeOut,          \* mergeWithDefaults(mergeIn)
    mergeOut2,         \* mergeWithDefaults(mergeOut)
    proc,              \* the process: whether it runs, the files it started on, and
                       \* how far its last persistConfig got
    clientTilesCache,  \* clientTilesCache: the payload buildClientTiles keeps, and its time
    pending,           \* the handlers suspended at an await, in order of arrival
    builds,            \* the calls of buildClientTiles suspended at an await
    started,           \* the processes the last POST /api/run handed to spawn
    programIndexCache, \* programIndexCache: the program index last built, and its time
    resolveIn,         \* argument of resolveProgramPath under study
    resolveOut         \* resolveProgramPath(resolveIn)

vars == <<config, disk, fsys, disableAutodetect, rateState, now, req, res, rateLog,
          mergeIn, mergeOut, mergeOut2, proc, clientTilesCache, pending, builds,
          started, programIndexCache, resolveIn, resolveOut>>

\* the argument and the result of the program resolver
resolver == <<resolveIn, resolveOut>>

\* what a request that changes nothing leaves alone
store == <<config, disk, proc, clientTilesCache, pending, builds, started, programIndexCache>>

\* value of the variables a specification does not use
Idle == [idle |-> TRUE]

\* the history of the limiter, in the specifications that do not keep it
NoLog == [kept |-> FALSE, entries |-> <<>>]

\* mergeWithDefaults has not been called yet
NotRun == [pending |-> TRUE]

(***************************************************************************)
(* Program constants                                                       *)
(***************************************************************************)
TILE_TYPES == {"action", "app", "folder", "url", "protocol"}
ICON_MODES == {"auto", "emoji", "image"}
TILE_SHOW_IF == {"", "wowRunning", "wowNotRunning"}
NAMED_ACTIONS == {"terminal", "powershell", "browser", "discord",
    "streamingSoundboard", "wowNavigator", "curseforge", "curseforgeManager",
    "performanceOverlay", "wowStart", "openWorkspace", "vscode", "wowClassic",
    "wowTBC", "openWowAddons", "openWowLogs", "openWowWtf"}
MAX_PATH_LEN == 2048
MAX_ICON_DATA_URL_LEN == 2000000
TOKEN_MIN_LEN == 12
RANDOM_TOKEN_LEN == 96
ID_MAX_LEN == 64
CUSTOM_ID_MAX_LEN == 96
LABEL_MAX_LEN == 80
SUBTITLE_MAX_LEN == 140
TYPE_MAX_LEN == 32
SHOWIF_MAX_LEN == 24
ICON_MAX_LEN == 12
ARG_MAX_LEN == 512
ARGS_MAX_ITEMS == 16
TOKEN_READ_MAX_LEN == 512
DEFAULT_WINDOW_MS == 3000
DEFAULT_MAX == 20
MIN_WINDOW_MS == 250
MIN_MAX == 3
CLIENT_TILES_CACHE_MS == 1200
DEFAULT_AI_MODEL == "gpt-4o-mini"
AI_MODEL_MAX_LEN == 80
AI_KEY_MAX_LEN == 256
AI_KEY_MIN_LEN == 20

\* process.env, as far as expandEnv reads it
EnvVars == [SystemRoot |-> "C:\\Windows"]

\* expandEnv: value.replace(/%([^%]+)%/g, (_, key) => process.env[key] || "")
IndexOfPct(s) == IF \E i \in 1..Len(s) : SubSeq(s, i, i) = "%"
                 THEN CHOOSE i \in 1..Len(s) :
                        /\ SubSeq(s, i, i) = "%"
                        /\ \A j \in 1..(i - 1) : SubSeq(s, j, j) # "%"
                 ELSE 0

RECURSIVE expandEnv(_)
expandEnv(s) ==
    LET i == IndexOfPct(s)
    IN IF i = 0 THEN s
       ELSE LET rest == SubSeq(s, i + 1, Len(s))
                j == IndexOfPct(rest)
            IN SubSeq(s, 1, i - 1) \o
               (IF j <= 1 THEN "%" \o expandEnv(rest)
                ELSE LET key == SubSeq(rest, 1, j - 1)
                     IN (IF key \in DOMAIN EnvVars THEN EnvVars[key] ELSE "")
                        \o expandEnv(SubSeq(rest, j + 1, Len(rest))))

fileExists(p) == p \in fsys.files
dirExists(p) == p \in fsys.dirs
\* isProcessRunning, asked of the process list of the machine
isProcessRunning(name) == name \in fsys.running
WOW_PROCESS_NAME == "WowClassic.exe"

\* hasTemplateSyntax
hasTemplateSyntax(s) == Includes(s, "{{") /\ Includes(s, "}}")

(***************************************************************************)
(* Defaults                                                                *)
(***************************************************************************)
Page(id, label) == [id |-> id, label |-> label]

getDefaultProfiles == <<
    [id |-> "work", label |-> "Work",
     pages |-> <<Page("main", "Main"), Page("dev", "Dev")>>],
    [id |-> "wow", label |-> "WoW",
     pages |-> <<Page("main", "Main"), Page("addons", "Addons")>>],
    [id |-> "gaming", label |-> "Gaming",
     pages |-> <<Page("main", "Main"), Page("overlay", "Overlay"), Page("addons", "Addons")>>],
    [id |-> "streaming", label |-> "Streaming",
     pages |-> <<Page("main", "Main"), Page("social", "Social")>>],
    [id |-> "fav", label |-> "Favorites", pages |-> <<Page("main", "Main")>>] >>

\* The icons are emoji in the source; they are spelled here by code point.
getDefaultTiles == <<
    [id |-> "vscode", profile |-> "work", page |-> "dev", label |-> "VS Code",
     subtitle |-> "Workspace", type |-> "app", launcherKey |-> "vscode",
     args |-> <<".">>, startIn |-> "{{workspaceDir}}", iconMode |-> "auto",
     icon |-> "U+1F4BB", builtin |-> TRUE],
    [id |-> "terminal", profile |-> "work", page |-> "main", label |-> "Terminal",
     subtitle |-> "Windows Terminal", type |-> "action", action |-> "terminal",
     iconMode |-> "emoji", icon |-> "U+2328", builtin |-> TRUE],
    [id |-> "powershell", profile |-> "work", page |-> "main", label |-> "PowerShell",
     subtitle |-> "Neue Session", type |-> "action", action |-> "powershell",
     iconMode |-> "emoji", icon |-> "U+1F9F0", builtin |-> TRUE],
    [id |-> "workspace", profile |-> "work", page |-> "main", label |-> "Projektordner",
     subtitle |-> "Explorer", type |-> "folder", target |-> "{{workspaceDir}}",
     iconMode |-> "emoji", icon |-> "U+1F4C1", builtin |-> TRUE],
    [id |-> "wowStart", profile |-> "wow", page |-> "main", label |-> "WoW Start",
     subtitle |-> "Launcher + WoW Profil", type |-> "action", action |-> "wowStart",
     iconMode |-> "emoji", icon |-> "U+1F3AE", showIf |-> "wowNotRunning", builtin |-> TRUE],
    [id |-> "wowLauncher", profile |-> "wow", page |-> "main", label |-> "WoW Launcher",
     subtitle |-> "Direkt starten", type |-> "app", launcherKey |-> "wow",
     iconMode |-> "auto", icon |-> "U+1F3AE", builtin |-> TRUE],
    [id |-> "wowNavigator", profile |-> "wow", page |-> "addons", label |-> "WoW Navigator",
     subtitle |-> "Quest-Hilfe + Waypoints", type |-> "action", action |-> "wowNavigator",
     iconMode |-> "emoji", icon |-> "U+1F9ED", builtin |-> TRUE],
    [id |-> "wowAddons", profile |-> "wow", page |-> "addons", label |-> "AddOns",
     subtitle |-> "Ordner oeffnen", type |-> "folder", target |-> "{{wow.folders.addons}}",
     iconMode |-> "emoji", icon |-> "U+1F9E9", showIf |-> "wowRunning", builtin |-> TRUE],
    [id |-> "wowLogs", profile |-> "wow", page |-> "addons", label |-> "Logs",
     subtitle |-> "Ordner oeffnen", type |-> "folder", target |-> "{{wow.folders.logs}}",
     iconMode |-> "emoji", icon |-> "U+1F4DD", showIf |-> "wowRunning", builtin |-> TRUE],
    [id |-> "wowWtf", profile |-> "wow", page |-> "addons", label |-> "WTF",
     subtitle |-> "Ordner oeffnen", type |-> "folder", target |-> "{{wow.folders.wtf}}",
     iconMode |-> "emoji", icon |-> "U+2699", showIf |-> "wowRunning", builtin |-> TRUE],
    [id |-> "gamingPerfOverlay", profile |-> "gaming", page |-> "overlay",
     label |-> "Leistungs-Overlay", subtitle |-> "CPU | RAM | Netz live",
     type |-> "action", action |-> "performanceOverlay",
     iconMode |-> "emoji", icon |-> "U+1F4CA", builtin |-> TRUE],
    [id |-> "gamingWowNavigator", profile |-> "gaming", page |-> "addons",
     label |-> "WoW Navigator", subtitle |-> "KI Quest-Hilfe",
     type |-> "action", action |-> "wowNavigator",
     iconMode |-> "emoji", icon |-> "U+1F9ED", builtin |-> TRUE],
    [id |-> "gamingCurseForgeManager", profile |-> "gaming", page |-> "addons",
     label |-> "CurseForge Manager", subtitle |-> "AddOns verwalten",
     type |-> "action", action |-> "curseforgeManager",
     iconMode |-> "emoji", icon |-> "U+1F9E9", builtin |-> TRUE],
    [id |-> "gamingCurseForgeApp", profile |-> "gaming", page |-> "addons",
     label |-> "CurseForge App", subtitle |-> "Client starten",
     type |-> "action", action |-> "curseforge",
     iconMode |-> "emoji", icon |-> "U+1F525", builtin |-> TRUE],
    [id |-> "discord", profile |-> "streaming", page |-> "social", label |-> "Discord",
     subtitle |-> "Protocol", type |-> "protocol", target |-> "discord://",
     iconMode |-> "emoji", icon |-> "U+1F4AC", builtin |-> TRUE],
    [id |-> "obs", profile |-> "streaming", page |-> "main", label |-> "OBS Studio",
     subtitle |-> "Streaming", type |-> "app", launcherKey |-> "obs",
     iconMode |-> "auto", icon |-> "U+1F3AC", builtin |-> TRUE],
    [id |-> "streamingSoundboard", profile |-> "streaming", page |-> "main",
     label |-> "Live Soundboard", subtitle |-> "App-Audio + Spotify",
     type |-> "action", action |-> "streamingSoundboard",
     iconMode |-> "emoji", icon |-> "U+1F39A", builtin |-> TRUE] >>

\* uniq over strings: trimmed, empty and repeated entries dropped
uniqStr(list) ==
    LET values == [i \in DOMAIN list |-> Trim(list[i])]
    IN AtIndices(values, {i \in DOMAIN values :
                            /\ values[i] # ""
                            /\ \A j \in 1..(i - 1) : values[j] # values[i]})

\* getDefaultLaunchers with LOCALAPPDATA unset, ProgramFiles and
\* ProgramFiles(x86) at their fallbacks, and no legacy `paths` field
getDefaultLaunchers ==
    [vscode |-> [label |-> "VS Code", path |-> "",
        candidates |-> uniqStr(<<"Programs\\Microsoft VS Code\\Code.exe",
            "C:\\Program Files\\Microsoft VS Code\\Code.exe",
            "C:\\Program Files\\Microsoft VS Code Insiders\\Code - Insiders.exe">>)],
     wow |-> [label |-> "World of Warcraft Launcher", path |-> "",
        candidates |-> uniqStr(<<
            "C:\\Program Files (x86)\\World of Warcraft\\World of Warcraft Launcher.exe",
            "C:\\Program Files\\World of Warcraft\\World of Warcraft Launcher.exe",
            "C:\\Program Files (x86)\\Battle.net\\Battle.net Launcher.exe",
            "C:\\Program Files\\Battle.net\\Battle.net Launcher.exe">>)],
     obs |-> [label |-> "OBS Studio", path |-> "",
        candidates |-> uniqStr(<<
            "C:\\Program Files\\obs-studio\\bin\\64bit\\obs64.exe",
            "C:\\Program Files (x86)\\obs-studio\\bin\\64bit\\obs64.exe">>)],
     curseforge |-> [label |-> "CurseForge", path |-> "",
        candidates |-> uniqStr(<<"Programs\\CurseForge Windows\\CurseForge.exe",
            "Programs\\CurseForge\\CurseForge.exe",
            "C:\\Program Files\\Overwolf\\OverwolfLauncher.exe",
            "C:\\Program Files (x86)\\Overwolf\\OverwolfLauncher.exe">>)]]

\* createDefaultConfig: the fields of the configuration this model carries
\* (token, rateLimit, launchers, profiles, tiles); token is randomToken()
createDefaultConfig(rnd) ==
    [token |-> rnd,
     rateLimit |-> [windowMs |-> DEFAULT_WINDOW_MS, max |-> DEFAULT_MAX],
     ai |-> [model |-> DEFAULT_AI_MODEL, openAiApiKey |-> ""],
     launchers |-> getDefaultLaunchers,
     profiles |-> getDefaultProfiles,
     tiles |-> getDefaultTiles]

(***************************************************************************)
(* Tile validator                                                          *)
(***************************************************************************)
Letters == {"a","b","c","d","e","f","g","h","i","j","k","l","m","n","o","p","q",
            "r","s","t","u","v","w","x","y","z","A","B","C","D","E","F","G","H",
            "I","J","K","L","M","N","O","P","Q","R","S","T","U","V","W","X","Y","Z"}
SchemeChars == Letters \cup {"0","1","2","3","4","5","6","7","8","9","+",".","-"}

HasWs(s) == \E i \in 1..Len(s) : IsWs(CharAt(s, i))

\* /^[a-z][a-z0-9+.-]*:/i
SchemeOk(s) ==
    /\ s # ""
    /\ Head(s) \in Letters
    /\ \E i \in 2..Len(s) :
          /\ CharAt(s, i) = ":"
          /\ \A j \in 2..(i - 1) : CharAt(s, j) \in SchemeChars

\* normalizeProtocolTarget
normalizeProtocolTarget(rawInput) ==
    LET raw == Trim(rawInput)
    IN IF raw = "" \/ Len(raw) > MAX_PATH_LEN THEN ""
       ELSE IF ~SchemeOk(raw) THEN ""
       ELSE IF HasWs(raw) THEN ""
       ELSE raw

\* normalizeHttpUrl, as far as its callers look at it (empty or not).  The
\* platform's URL parser is reduced to: scheme http or https, followed by
\* "://" and a non-empty host without white space.
IndexOfSep(s) == IF Includes(s, "://")
                 THEN CHOOSE i \in 1..Len(s) :
                        /\ SubSeq(s, i, i + 2) = "://"
                        /\ \A j \in 1..(i - 1) : SubSeq(s, j, j + 2) # "://"
                 ELSE 0

HostOf(rest) ==
    LET stops == {i \in 1..Len(rest) : CharAt(rest, i) \in {"/", "?", "#"}}
    IN IF stops = {} THEN rest
       ELSE SubSeq(rest, 1, (CHOOSE i \in stops : \A j \in stops : i <= j) - 1)

normalizeHttpUrl(rawInput) ==
    LET raw == Trim(rawInput)
        full == IF Includes(raw, "://") THEN raw ELSE "https://" \o raw
        i == IndexOfSep(full)
        scheme == SubSeq(full, 1, i - 1)
        host == HostOf(SubSeq(full, i + 3, Len(full)))
    IN IF raw = "" THEN ""
       ELSE IF scheme \notin {"http", "https"} THEN ""
       ELSE IF host = "" \/ HasWs(host) THEN ""
       ELSE full

\* safeArray: the first maxItems items that are not empty once trimmed
safeArray(input, itemMaxLen, maxItems) ==
    IF input.k # "arr" THEN <<>>
    ELSE LET items == [i \in DOMAIN input.a |-> safeTrimStr(StrOr(input.a[i]), itemMaxLen)]
             kept == AtIndices(items, {i \in DOMAIN items : items[i] # ""})
         IN IF Len(kept) > maxItems THEN SubSeq(kept, 1, maxItems) ELSE kept

\* what normalizeTile returns for a tile it drops
NoTile == [null |-> TRUE]

Has(t, f) == f \in DOMAIN t

\* tile.f is a non-empty string (an absent field is falsy)
Filled(t, f) == Has(t, f) /\ t[f] # ""

\* typeof v === "string" && v.trim()
NonBlankStr(v) == IsStr(v) /\ Trim(v.s) # ""

Opt(cond, f, val) == IF cond THEN f :> val ELSE EmptyRec

\* the last five checks of normalizeTile, on the assembled tile
TileTypeChecksOk(tile) ==
    /\ ~(tile.type = "action" /\ (~Filled(tile, "action") \/ tile.action \notin NAMED_ACTIONS))
    /\ ~(tile.type = "app" /\ ~Filled(tile, "target") /\ ~Filled(tile, "launcherKey"))
    /\ ~(tile.type \in {"folder", "url", "protocol"} /\ ~Filled(tile, "target"))
    /\ ~(tile.type = "url" /\ normalizeHttpUrl(tile.target) = "")
    /\ ~(tile.type = "protocol" /\ normalizeProtocolTarget(tile.target) = "")

normalizeTile(raw) ==
    IF ~IsObjLike(raw) THEN NoTile
    ELSE
    LET id == safeTrim(Prop(raw, "id"), ID_MAX_LEN)
        profile == safeTrim(Prop(raw, "profile"), ID_MAX_LEN)
        page == safeTrim(IF Truthy(Prop(raw, "page")) THEN Prop(raw, "page") ELSE S("main"),
                         ID_MAX_LEN)
        label == safeTrim(Prop(raw, "label"), LABEL_MAX_LEN)
        type == safeTrim(Prop(raw, "type"), TYPE_MAX_LEN)
        showIf == safeTrim(Prop(raw, "showIf"), SHOWIF_MAX_LEN)
        iconMode == Prop(raw, "iconMode")
        iconData == Prop(raw, "iconData")
        launcherKey == Prop(raw, "launcherKey")
        target == Prop(raw, "target")
        startIn == Prop(raw, "startIn")
        action == Prop(raw, "action")
        args == Prop(raw, "args")
        tooLong(v) == NonBlankStr(v) /\ Len(Trim(v.s)) > MAX_PATH_LEN
        tile ==
            [id |-> id, profile |-> profile, page |-> page, label |-> label,
             subtitle |-> safeTrim(Prop(raw, "subtitle"), SUBTITLE_MAX_LEN),
             type |-> type,
             builtin |-> Truthy(Prop(raw, "builtin")),
             showIf |-> IF showIf \in TILE_SHOW_IF THEN showIf ELSE "",
             iconMode |-> IF IsStr(iconMode) /\ iconMode.s \in ICON_MODES
                          THEN iconMode.s ELSE "emoji",
             icon |-> safeTrim(Prop(raw, "icon"), ICON_MAX_LEN),
             iconData |-> IF IsStr(iconData) /\ Len(iconData.s) <= MAX_ICON_DATA_URL_LEN
                          THEN iconData.s ELSE ""]
            @@ Opt(NonBlankStr(launcherKey), "launcherKey", safeTrim(launcherKey, ID_MAX_LEN))
            @@ Opt(NonBlankStr(target), "target", Trim(StrOr(target)))
            @@ Opt(args.k = "arr", "args", safeArray(args, ARG_MAX_LEN, ARGS_MAX_ITEMS))
            @@ Opt(NonBlankStr(startIn), "startIn", Trim(StrOr(startIn)))
            @@ Opt(NonBlankStr(action), "action", safeTrim(action, ID_MAX_LEN))
        typeChecked(t) == IF ~TileTypeChecksOk(t) THEN NoTile ELSE t
    IN IF id = "" \/ profile = "" \/ page = "" \/ label = "" \/ type = "" THEN NoTile
       ELSE IF type \notin TILE_TYPES THEN NoTile
       ELSE IF tooLong(target) \/ tooLong(startIn) THEN NoTile
       ELSE typeChecked(tile)

\* a stored tile, seen as the untyped value it is when it is read back
ToRawTile(t) ==
    Obj([f \in DOMAIN t |->
          IF f = "builtin" THEN B(t[f])
          ELSE IF f = "args" THEN Arr([i \in DOMAIN t[f] |-> S(t[f][i])])
          ELSE S(t[f])])

\* index of the tile with this id, 0 when there is none (Array.findIndex + 1)
FindTile(tiles, id) ==
    IF \E i \in 1..Len(tiles) : tiles[i].id = id
    THEN CHOOSE i \in 1..Len(tiles) :
            /\ tiles[i].id = id
            /\ \A j \in 1..(i - 1) : tiles[j].id # id
    ELSE 0

\* the first loop of ensureBuiltinTiles: byId.set(t.id, t) keeps an id at
\* the place of its first tile and gives it the value of its last tile
NormalizeAll(raws) ==
    LET byId(ts) ==
            LET ok == {i \in DOMAIN ts : ts[i] # NoTile}
                first == {i \in ok : \A j \in ok : j < i => ts[j].id # ts[i].id}
                lastOf(i) == CHOOSE j \in ok :
                                /\ ts[j].id = ts[i].id
                                /\ \A m \in ok : m > j => ts[m].id # ts[i].id
            IN AtIndices([i \in DOMAIN ts |-> IF i \in ok THEN ts[lastOf(i)] ELSE NoTile],
                         first)
    IN byId([i \in DOMAIN raws |-> normalizeTile(raws[i])])

\* the second loop: the default tiles whose id is missing are appended
AddMissingDefaults(defs, acc) ==
    acc \o AtIndices(defs, {i \in DOMAIN defs : FindTile(acc, defs[i].id) = 0})

ensureBuiltinTiles(inputTiles) ==
    AddMissingDefaults(getDefaultTiles,
        NormalizeAll(IF inputTiles.k = "arr" THEN inputTiles.a ELSE <<>>))

(***************************************************************************)
(* Config schema and merge engine                                          *)
(***************************************************************************)
\* the outcome of a call that threw
Thrown == [thrown |-> TRUE]

\* String(v || "").trim()
TrimOf(v) == Trim(StrOr(v))

\* pages of one incoming profile, given p.pages
MapPages(xs) ==
    LET pgs == [i \in DOMAIN xs |->
                  Page(TrimOf(Prop(xs[i], "id")), TrimOf(Prop(xs[i], "label")))]
    IN AtIndices(pgs, {i \in DOMAIN pgs : pgs[i].id # "" /\ pgs[i].label # ""})

ProfileKept(p) ==
    /\ IsObjLike(p)
    /\ TrimOf(Prop(p, "id")) # ""
    /\ TrimOf(Prop(p, "label")) # ""

HasPageList(p) == Prop(p, "pages").k = "arr" /\ Prop(p, "pages").a # <<>>

\* the first loop of normalizeProfiles
KeptProfiles(input) ==
    LET pagesOf(p) == IF HasPageList(p) THEN MapPages(Prop(p, "pages").a)
                      ELSE <<Page("main", "Main")>>
        one(p) == [id |-> TrimOf(Prop(p, "id")), label |-> TrimOf(Prop(p, "label")),
                   pages |-> IF pagesOf(p) # <<>> THEN pagesOf(p)
                             ELSE <<Page("main", "Main")>>]
        kept == AtIndices(input, {i \in DOMAIN input : ProfileKept(input[i])})
    IN [i \in DOMAIN kept |-> one(kept[i])]

\* profileById.get(id): the Map built from the list keeps the last entry of an id
LastProfile(out, id) ==
    IF \E i \in 1..Len(out) : out[i].id = id
    THEN CHOOSE i \in 1..Len(out) :
            /\ out[i].id = id
            /\ \A j \in (i + 1)..Len(out) : out[j].id # id
    ELSE 0

AddMissingPages(defPages, pages) ==
    pages \o AtIndices(defPages, {k \in DOMAIN defPages :
                                    \A i \in 1..Len(pages) : pages[i].id # defPages[k].id})

\* the second loop of normalizeProfiles: a built-in profile that is missing
\* is appended; one that is present (the entry profileById holds) gets the
\* built-in pages it lacks
UnionDefaults(defs, out) ==
    LET defAt(i) == {d \in DOMAIN defs : LastProfile(out, defs[d].id) = i}
    IN [i \in DOMAIN out |->
          IF defAt(i) = {} THEN out[i]
          ELSE [out[i] EXCEPT !.pages =
                   AddMissingPages(defs[CHOOSE d \in defAt(i) : TRUE].pages, out[i].pages)]]
       \o AtIndices(defs, {d \in DOMAIN defs : LastProfile(out, defs[d].id) = 0})

\* x.id is read of a page entry x that is null
normalizeProfilesThrows(input) ==
    /\ input.k = "arr"
    /\ \E i \in 1..Len(input.a) :
          LET p == input.a[i]
          IN /\ ProfileKept(p)
             /\ HasPageList(p)
             /\ \E j \in 1..Len(Prop(p, "pages").a) : PropThrows(Prop(p, "pages").a[j])

normalizeProfiles(input) ==
    IF input.k # "arr" \/ input.a = <<>> THEN getDefaultProfiles
    ELSE LET withDefaults(out) == IF out = <<>> THEN getDefaultProfiles
                                  ELSE UnionDefaults(getDefaultProfiles, out)
         IN withDefaults(KeptProfiles(input.a))

\* Number(v), NaN being [nan |-> TRUE]; decimal integers only
NaN == [nan |-> TRUE]
Num(n) == [nan |-> FALSE, n |-> n]
Digits == {"0","1","2","3","4","5","6","7","8","9"}
DigitVal(c) == CHOOSE d \in 0..9 : Digit(d) = c

RECURSIVE ParseNat(_, _)
ParseNat(s, acc) == IF s = "" THEN acc
                    ELSE ParseNat(Tail(s), acc * 10 + DigitVal(Head(s)))

StrToNumber(str) ==
    LET t == Trim(str)
        neg == t # "" /\ Head(t) = "-"
        body == IF neg THEN Tail(t) ELSE t
    IN IF t = "" THEN Num(0)
       ELSE IF body # "" /\ \A i \in 1..Len(body) : CharAt(body, i) \in Digits
            THEN Num(IF neg THEN 0 - ParseNat(body, 0) ELSE ParseNat(body, 0))
            ELSE NaN

JsNumber(v) == CASE v.k = "num" -> Num(v.n)
                 [] v.k = "null" -> Num(0)
                 [] v.k = "bool" -> Num(IF v.b THEN 1 ELSE 0)
                 [] v.k = "str" -> StrToNumber(v.s)
                 [] v.k = "arr" -> StrToNumber(ToStr(v))
                 [] OTHER -> NaN

MaxOf(a, b) == IF a >= b THEN a ELSE b

\* ...(v || []): the elements spread into the list
Spread(v) == IF ~Truthy(v) THEN <<>>
             ELSE IF v.k = "arr" THEN v.a
             ELSE IF v.k = "str" THEN [i \in 1..Len(v.s) |-> S(Chars(v.s)[i])]
             ELSE <<>>

\* ...(v || []) throws: v is truthy and not iterable
SpreadThrows(v) == Truthy(v) /\ v.k \notin {"arr", "str"}

\* uniq drops the entries that are not strings
OnlyStrings(list) ==
    LET strs == AtIndices(list, {i \in DOMAIN list : IsStr(list[i])})
    IN [i \in DOMAIN strs |-> strs[i].s]

uniq(list) == uniqStr(OnlyStrings(list))

\* Object.entries(v): the keys (array indices for an array)
EntryKeys(v) == IF v.k = "obj" THEN DOMAIN v.o
                ELSE IF v.k = "arr" THEN {IntToStr(i - 1) : i \in 1..Len(v.a)}
                ELSE {}

EntryVal(v, key) == IF v.k = "obj" THEN v.o[key]
                    ELSE v.a[CHOOSE i \in 1..Len(v.a) : IntToStr(i - 1) = key]

mergeLaunchers(base, cl) ==
    LET used == {key \in EntryKeys(cl) : IsObjLike(EntryVal(cl, key))}
        one(key) ==
            LET value == EntryVal(cl, key)
                old == IF key \in DOMAIN base THEN base[key]
                       ELSE [label |-> key, path |-> "", candidates |-> <<>>]
            IN [label |-> IF NonBlankStr(Prop(value, "label"))
                          THEN Prop(value, "label").s ELSE old.label,
                path |-> IF IsStr(Prop(value, "path"))
                         THEN Prop(value, "path").s ELSE old.path,
                candidates |-> uniqStr(old.candidates
                                  \o OnlyStrings(Spread(Prop(value, "candidates"))))]
    IN [key \in (DOMAIN base) \cup used |->
            IF key \in used THEN one(key) ELSE base[key]]

mergeLaunchersThrows(cl) ==
    \E key \in EntryKeys(cl) :
        /\ IsObjLike(EntryVal(cl, key))
        /\ SpreadThrows(Prop(EntryVal(cl, key), "candidates"))

\* candidates.find((p) => fileExists(p)), "" when there is none
FirstExisting(paths) ==
    LET hits == AtIndices(paths, {i \in DOMAIN paths : fileExists(paths[i])})
    IN IF hits = <<>> THEN "" ELSE hits[1]

autodetectOne(launcher) ==
    LET current == expandEnv(launcher.path)
        found == FirstExisting(uniqStr([i \in DOMAIN launcher.candidates |->
                                          expandEnv(launcher.candidates[i])]))
    IN IF current # "" /\ fileExists(current) THEN [launcher EXCEPT !.path = current]
       ELSE IF found # "" /\ launcher.path # found THEN [launcher EXCEPT !.path = found]
       ELSE launcher

\* autodetectLaunchers(config), all keys
autodetectLaunchers(launchers) ==
    [key \in DOMAIN launchers |-> autodetectOne(launchers[key])]

mergeRateLimit(base, rl) ==
    LET atLeast(least, v, default) == IF ~v.nan THEN MaxOf(least, v.n) ELSE default
    IN [windowMs |-> atLeast(MIN_WINDOW_MS, JsNumber(Prop(rl, "windowMs")), base.windowMs),
        max |-> atLeast(MIN_MAX, JsNumber(Prop(rl, "max")), base.max)]

\* mergeWithDefaults throws: createDefaultConfig reads oldConfig.wow of null,
\* the launcher merge spreads a value that is not iterable, normalizeProfiles
\* reads x.id of a null page
mergeThrows(raw) ==
    LET cfg == IF IsObjLike(raw) THEN raw ELSE Obj(EmptyRec)
    IN \/ raw.k = "null"
       \/ /\ IsObjLike(Prop(cfg, "launchers"))
          /\ mergeLaunchersThrows(Prop(cfg, "launchers"))
       \/ normalizeProfilesThrows(Prop(cfg, "profiles"))

\* mergeWithDefaults(raw); rnd is the value randomToken() returns in
\* createDefaultConfig
\* config.ai: createDefaultConfig takes model and key over from the input
\* where they are strings, and mergeWithDefaults sets them again where the
\* input's ai is an object
mergeAi(ai) ==
    LET model == Prop(ai, "model")
        key == Prop(ai, "openAiApiKey")
        kept == IF IsStr(model) /\ Trim(model.s) # "" THEN safeTrim(model, AI_MODEL_MAX_LEN)
                ELSE DEFAULT_AI_MODEL
        again == safeTrim(IF Truthy(model) THEN model
                          ELSE IF kept # "" THEN S(kept) ELSE S(DEFAULT_AI_MODEL),
                          AI_MODEL_MAX_LEN)
    IN [model |-> IF ~IsObjLike(ai) THEN kept
                  ELSE IF again # "" THEN again ELSE DEFAULT_AI_MODEL,
        openAiApiKey |-> IF IsStr(key) THEN safeTrim(key, AI_KEY_MAX_LEN) ELSE ""]

mergeWithDefaults(raw, rnd) ==
    IF mergeThrows(raw) THEN Thrown
    ELSE
    LET cfg == IF IsObjLike(raw) THEN raw ELSE Obj(EmptyRec)
        token == Prop(cfg, "token")
        rl == Prop(cfg, "rateLimit")
        cl == Prop(cfg, "launchers")
        autodetected(launchers) == IF disableAutodetect THEN launchers
                                   ELSE autodetectLaunchers(launchers)
        merged(base) ==
            [token |-> IF IsStr(token) /\ Len(token.s) >= TOKEN_MIN_LEN THEN token.s
                       ELSE base.token,
             rateLimit |-> IF IsObjLike(rl) THEN mergeRateLimit(base.rateLimit, rl)
                           ELSE base.rateLimit,
             ai |-> mergeAi(Prop(cfg, "ai")),
             launchers |-> autodetected(IF IsObjLike(cl) THEN mergeLaunchers(base.launchers, cl)
                                        ELSE base.launchers),
             profiles |-> normalizeProfiles(Prop(cfg, "profiles")),
             tiles |-> ensureBuiltinTiles(Prop(cfg, "tiles"))]
    IN merged(createDefaultConfig(rnd))

\* a configuration object, seen as the untyped value it is when it is merged
\* or written
StrList(l) == Arr([i \in DOMAIN l |-> S(l[i])])

ToRawProfile(p) ==
    Obj([id |-> S(p.id), label |-> S(p.label),
         pages |-> Arr([i \in DOMAIN p.pages |->
                          Obj([id |-> S(p.pages[i].id), label |-> S(p.pages[i].label)])])])

ToRawConfig(c) ==
    Obj([token |-> S(c.token),
         rateLimit |-> Obj([windowMs |-> N(c.rateLimit.windowMs), max |-> N(c.rateLimit.max)]),
         ai |-> Obj([model |-> S(c.ai.model), openAiApiKey |-> S(c.ai.openAiApiKey)]),
         launchers |-> Obj([key \in DOMAIN c.launchers |->
                              Obj([label |-> S(c.launchers[key].label),
                                   path |-> S(c.launchers[key].path),
                                   candidates |-> StrList(c.launchers[key].candidates)])]),
         profiles |-> Arr([i \in DOMAIN c.profiles |-> ToRawProfile(c.profiles[i])]),
         tiles |-> Arr([i \in DOMAIN c.tiles |-> ToRawTile(c.tiles[i])])])

(***************************************************************************)
(* Admission layer                                                         *)
(***************************************************************************)
UpperCase == "ABCDEFGHIJKLMNOPQRSTUVWXYZ"
LowerCase == "abcdefghijklmnopqrstuvwxyz"

UpperChars == {CharAt(UpperCase, i) : i \in 1..26}

LowerChar(c) == IF \E i \in 1..26 : CharAt(UpperCase, i) = c
                THEN CharAt(LowerCase, CHOOSE i \in 1..26 : CharAt(UpperCase, i) = c)
                ELSE c

\* String.prototype.toLowerCase, by halves
RECURSIVE ToLower(_)
ToLower(s) ==
    IF \A i \in 1..Len(s) : CharAt(s, i) \notin UpperChars THEN s
    ELSE IF Len(s) = 1 THEN LowerChar(s)
    ELSE LET h == Len(s) \div 2
         IN ToLower(SubSeq(s, 1, h)) \o ToLower(SubSeq(s, h + 1, Len(s)))

StartsWith(s, prefix) == Len(s) >= Len(prefix) /\ SubSeq(s, 1, Len(prefix)) = prefix

\* readTokenFromRequest: the X-Token header, else the token query parameter
readTokenFromRequest(r) ==
    LET header == safeTrim(r.header, TOKEN_READ_MAX_LEN)
        query == IF IsStr(r.query) THEN safeTrim(r.query, TOKEN_READ_MAX_LEN) ELSE ""
    IN IF header # "" THEN header ELSE query

\* secureEqualText: equal length and equal bytes
secureEqualText(a, b) == Len(a) = Len(b) /\ a = b

\* requireToken: "" when the request passes, else the error of the 401
requireToken(r) ==
    LET token == readTokenFromRequest(r)
    IN IF token = "" THEN "unauthorized: missing token"
       ELSE IF ~secureEqualText(token, config.token) THEN "unauthorized: token mismatch"
       ELSE ""

rateLimitCostForPath(rawPath) ==
    LET p == ToLower(rawPath)
    IN IF StartsWith(p, "/api/wow/assistant") THEN 4
       ELSE IF StartsWith(p, "/api/icon") \/ StartsWith(p, "/api/stream/live") THEN 3
       ELSE IF \/ StartsWith(p, "/api/system/metrics")
               \/ StartsWith(p, "/api/audio/mixer")
               \/ StartsWith(p, "/api/bootstrap") THEN 2
       ELSE 1

\* rateClientKey; the first 12 hex digits of the SHA-1 of the token are
\* spelled sha1(<token>)
rateClientKey(r) ==
    LET token == readTokenFromRequest(r)
    IN IF token = "" THEN r.ip ELSE r.ip \o "|sha1(" \o token \o ")"

CeilDiv(a, b) == (a + b - 1) \div b

RateWindowMs == MaxOf(MIN_WINDOW_MS, IF config.rateLimit.windowMs # 0
                                     THEN config.rateLimit.windowMs ELSE DEFAULT_WINDOW_MS)
RateMax == MaxOf(MIN_MAX, IF config.rateLimit.max # 0
                          THEN config.rateLimit.max ELSE DEFAULT_MAX)

\* the entry of client key after a request of this cost: the window restarts
\* when it is older than windowMs, then the cost of the route is added
rateEntryAfter(key, cost) ==
    LET old == IF key \in DOMAIN rateState THEN rateState[key] ELSE [t0 |-> now, n |-> 0]
        cur == IF now - old.t0 > RateWindowMs THEN [t0 |-> now, n |-> 0] ELSE old
    IN [t0 |-> cur.t0, n |-> cur.n + cost]

\* rateLimit: the table after the request.  The sweep runs on every 200th
\* call of rateLimit, counted over all clients, or once more than 5000
\* clients are tracked; the clients of this model are some of the clients,
\* so any of their requests can be the one that sweeps.
rateStateAfter(key, entry, sweep) ==
    LET set == [k \in (DOMAIN rateState) \cup {key} |->
                  IF k = key THEN entry ELSE rateState[k]]
        cutoff == now - (RateWindowMs * 4)
    IN IF sweep THEN [k \in {x \in DOMAIN set : set[x].t0 >= cutoff} |-> set[k]]
       ELSE set

\* rateLimit answering 429 as soon as the counter reaches max
rateLimited_AtMax(entry) == entry.n >= RateMax

\* rateLimit answers 429
rateLimited(entry) == entry.n > RateMax

\* the time to the end of the window, left in milliseconds
retryAfterSec_InMs(entry) == MaxOf(1, MaxOf(0, (entry.t0 + RateWindowMs) - now))

\* the Retry-After header of a 429
retryAfterSec(entry) ==
    LET resetMs == MaxOf(0, (entry.t0 + RateWindowMs) - now)
    IN MaxOf(1, CeilDiv(resetMs, 1000))

\* a response
Response(status, error, handler) ==
    [status |-> status, error |-> error, handler |-> handler, retryAfter |-> 0,
     tile |-> NoTile, tiles |-> <<>>, wowRunning |-> FALSE]

\* the process stopped before it answered
NoResponse == Response(0, "", "")

\* the routes of the model: method and path as registered with Express
\* (route paths match without regard to case)
RouteIs(r, method, path) == r.method = method /\ ToLower(r.path) = path

IsTileGet(r) == /\ r.method = "GET"
                /\ StartsWith(ToLower(r.path), "/api/tiles/")
                /\ Len(r.path) > Len("/api/tiles/")

ReadRoutes == {<<"GET", "/api/health">>, <<"GET", "/api/system/metrics">>,
               <<"POST", "/api/icon">>, <<"POST", "/api/wow/assistant">>}

Registered(r) ==
    \/ \E rt \in ReadRoutes : RouteIs(r, rt[1], rt[2])
    \/ RouteIs(r, "POST", "/api/tiles/upsert")
    \/ RouteIs(r, "POST", "/api/tiles/delete")
    \/ RouteIs(r, "POST", "/api/settings/import")
    \/ RouteIs(r, "POST", "/api/settings/launcher")
    \/ RouteIs(r, "POST", "/api/settings/ai")
    \/ RouteIs(r, "GET", "/api/bootstrap")
    \/ RouteIs(r, "POST", "/api/run")
    \/ IsTileGet(r)

\* express.json() fails on the body: the error handler answers before any route
BodyFails(r) == r.bodyOk # "ok"

\* The middleware in front of a route handler: express.json, requireToken,
\* rateLimit.  It answers the request (res) unless pass is TRUE, and then the
\* handler runs; rate is the limiter's table afterwards, and seen tells
\* whether the request got as far as rateLimit, with which key, cost and
\* entry.
Gate(r, sweep) ==
    LET stopped == [pass |-> FALSE, rate |-> rateState, seen |-> FALSE, key |-> "",
                    cost |-> 0, entry |-> [t0 |-> 0, n |-> 0],
                    res |-> Response(400, "ungueltiger JSON-Body", "error")]
        counted(key, cost, entry) ==
            [pass |-> ~rateLimited(entry),
             rate |-> rateStateAfter(key, entry, sweep), seen |-> TRUE,
             key |-> key, cost |-> cost, entry |-> entry,
             res |-> IF rateLimited(entry)
                     THEN [Response(429, "rate limited", "rateLimit")
                             EXCEPT !.retryAfter = retryAfterSec(entry)]
                     ELSE Response(200, "", "")]
        limited(key, cost) == counted(key, cost, rateEntryAfter(key, cost))
        checked(error) ==
            IF error # "" THEN [stopped EXCEPT !.res = Response(401, error, "requireToken")]
            ELSE limited(rateClientKey(r), rateLimitCostForPath(r.path))
    IN IF BodyFails(r) THEN stopped ELSE checked(requireToken(r))

(***************************************************************************)
(* Persistence                                                             *)
(***************************************************************************)
Absent == [kind |-> "absent"]
Garbage == [kind |-> "garbage"]
Json(v) == [kind |-> "json", v |-> v]
\* the file writeJsonAtomic leaves: JSON.stringify of the configuration c
Saved(c) == [kind |-> "saved", c |-> c]

\* How far a call of persistConfig gets: whether the copy to .bak succeeded,
\* whether writeJsonAtomic wrote the temporary file ("written") and then
\* renamed it ("renamed"), and whether the process stopped at that point.
Run(copied, got, stopped) == [copied |-> copied, got |-> got, stopped |-> stopped]
CompleteRun == Run(TRUE, "renamed", FALSE)
FailedRun == Run(FALSE, "none", FALSE)
PersistRuns ==
    {FailedRun} \cup
    {Run(TRUE, got, stopped) : got \in {"none", "written", "renamed"}, stopped \in BOOLEAN}

\* the call returned: the file is renamed and the process runs on
Completed(run) == run.got = "renamed" /\ ~run.stopped

\* the runs the files d allow: on a steady disk every call completes or,
\* where the disk is not writable, fails at its first write; on any other
\* disk a call may fail, or the process stop, at any point after the copy
Runs(d) == IF d.steady THEN {IF d.writable THEN CompleteRun ELSE FailedRun}
           ELSE PersistRuns

\* a writeJsonAtomic that writes the config file in place
writeJsonAtomic_InPlace(d, c, got) ==
    [d EXCEPT !.tmp = IF got = "written" THEN Saved(c) ELSE Absent,
              !.cfg = IF got \in {"written", "renamed"} THEN Saved(c) ELSE @]

\* writeJsonAtomic of the configuration c: the temporary file is written
\* next to the config file, under a name of its own, and renamed over it;
\* tmp is the temporary file of the latest call, where it is left behind
writeJsonAtomic(d, c, got) ==
    [d EXCEPT !.tmp = IF got = "written" THEN Saved(c) ELSE Absent,
              !.cfg = IF got = "renamed" THEN Saved(c) ELSE @]

\* persistConfig on the files d: the copy to .bak is attempted when the
\* config file exists and its failure is swallowed; then writeJsonAtomic
diskAfterPersist(d, c, run) ==
    writeJsonAtomic([d EXCEPT !.bak = IF run.copied /\ d.cfg # Absent THEN d.cfg ELSE @],
                    c, run.got)

\* parseJsonFile: the value in the file, or Thrown
parseJsonFile(file) ==
    IF file.kind = "saved" THEN ToRawConfig(file.c)
    ELSE IF file.kind = "json" THEN file.v
    ELSE Thrown

\* readConfigFromPath: the merged configuration, or Thrown when the file
\* does not parse, holds no object, or mergeWithDefaults throws on it
readConfigFromPath(file, rnd) ==
    LET merged(raw) == IF raw = Thrown THEN Thrown
                       ELSE IF raw.k # "obj" THEN Thrown
                       ELSE mergeWithDefaults(raw, rnd)
    IN merged(parseJsonFile(file))

\* readConfig when there is no config file: fresh defaults, autodetected
freshConfig(rnd) ==
    LET autodetected(fresh) ==
            IF disableAutodetect THEN fresh
            ELSE [fresh EXCEPT !.launchers = autodetectLaunchers(fresh.launchers)]
    IN autodetected(createDefaultConfig(rnd))

\* readConfig on the files d: the config file, else its backup, else the
\* defaults
readConfig(d, rnd) ==
    LET recovered(backup) == IF d.bak # Absent /\ backup # Thrown THEN backup
                             ELSE mergeWithDefaults(Obj(EmptyRec), rnd)
        read(primary) == IF primary # Thrown THEN primary
                         ELSE recovered(readConfigFromPath(d.bak, rnd))
    IN IF d.cfg = Absent THEN freshConfig(rnd)
       ELSE read(readConfigFromPath(d.cfg, rnd))

\* readConfig throws: there is no config file and writing the fresh one
\* fails; the exception reaches the top level of the module
readConfigThrows(d, first) == d.cfg = Absent /\ first.got # "renamed"

\* the files once the process has started: readConfig writes the fresh
\* configuration when there was no file (as far as first), then
\* persistConfigSafe runs (as far as run)
diskAfterBoot(d, c, first, run) ==
    IF d.cfg # Absent THEN diskAfterPersist(d, c, run)
    ELSE IF Completed(first) THEN diskAfterPersist(writeJsonAtomic(d, c, first.got), c, run)
    ELSE writeJsonAtomic(d, c, first.got)

\* the process after start-up
procAfterBoot(d, first, run) ==
    [state |-> IF readConfigThrows(d, first) THEN "aborted"
               ELSE IF d.cfg = Absent /\ first.stopped THEN "stopped"
               ELSE IF run.stopped THEN "stopped" ELSE "up",
     boot |-> d,
     persist |-> IF d.cfg = Absent /\ ~Completed(first) THEN first ELSE run]

(***************************************************************************)
(* Tile routes                                                             *)
(***************************************************************************)
\* property names every object inherits from Object.prototype, which
\* config.launchers[key] therefore finds
ObjectProtoKeys == {"constructor", "toString", "valueOf", "hasOwnProperty",
                    "isPrototypeOf", "propertyIsEnumerable", "toLocaleString",
                    "__proto__"}

\* config.launchers[key] is truthy
launcherFound(key) == key \in DOMAIN config.launchers \/ key \in ObjectProtoKeys

HasPage(profile, pageId) == \E j \in DOMAIN profile.pages : profile.pages[j].id = pageId

\* a || b || c on untyped values: the first truthy one, else the last
FirstTruthy(a, b, c) == IF Truthy(a) THEN a ELSE IF Truthy(b) THEN b ELSE c

\* existing?.f as an untyped value
FieldOf(existing, f) == IF existing # NoTile /\ Has(existing, f) THEN S(existing[f]) ELSE Undef

\* assertSafeInput throws: longer than maxLen once trimmed
assertSafeInputThrows(v) == Len(Trim(StrOr(v))) > MAX_PATH_LEN

Failed(msg) == [ok |-> FALSE, error |-> msg, tile |-> NoTile]
Accepted(t) == [ok |-> TRUE, error |-> "", tile |-> t]

\* the tile object sanitizeCustomTile assembles and hands to normalizeTile
customTileDraft(raw, existing, gen) ==
    LET iconMode == Prop(raw, "iconMode")
        iconData == Prop(raw, "iconData")
    IN Obj([id |-> S(IF existing # NoTile THEN existing.id
                     ELSE safeTrim(IF Truthy(Prop(raw, "id")) THEN Prop(raw, "id") ELSE S(gen),
                                   CUSTOM_ID_MAX_LEN)),
            profile |-> S(safeTrim(FirstTruthy(Prop(raw, "profile"), FieldOf(existing, "profile"), S("")), ID_MAX_LEN)),
            page |-> S(safeTrim(FirstTruthy(Prop(raw, "page"), FieldOf(existing, "page"), S("main")), ID_MAX_LEN)),
            label |-> S(safeTrim(FirstTruthy(Prop(raw, "label"), FieldOf(existing, "label"), S("")), LABEL_MAX_LEN)),
            type |-> S(safeTrim(FirstTruthy(Prop(raw, "type"), FieldOf(existing, "type"), S("")), TYPE_MAX_LEN)),
            subtitle |-> S(safeTrim(Prop(raw, "subtitle"), SUBTITLE_MAX_LEN)),
            builtin |-> B(FALSE),
            iconMode |-> S(IF IsStr(iconMode) /\ iconMode.s \in ICON_MODES
                           THEN iconMode.s ELSE "emoji"),
            icon |-> S(safeTrim(Prop(raw, "icon"), ICON_MAX_LEN)),
            iconData |-> S(IF IsStr(iconData) THEN iconData.s ELSE "")]
           @@ Opt(NonBlankStr(Prop(raw, "target")), "target", S(Trim(StrOr(Prop(raw, "target")))))
           @@ Opt(NonBlankStr(Prop(raw, "launcherKey")), "launcherKey",
                  S(safeTrim(Prop(raw, "launcherKey"), ID_MAX_LEN)))
           @@ Opt(NonBlankStr(Prop(raw, "action")), "action", S(safeTrim(Prop(raw, "action"), ID_MAX_LEN)))
           @@ Opt(Prop(raw, "args").k = "arr", "args",
                  StrList(safeArray(Prop(raw, "args"), ARG_MAX_LEN, ARGS_MAX_ITEMS)))
           @@ Opt(NonBlankStr(Prop(raw, "startIn")), "startIn", S(Trim(StrOr(Prop(raw, "startIn"))))))

\* the checks of sanitizeCustomTile on the normalized tile against the live
\* configuration and the file system.  An app tile without a launcherKey
\* goes on to the program resolver; the requests of this model carry none.
sanitizeChecked(normalized) ==
    LET profiles == {i \in DOMAIN config.profiles : config.profiles[i].id = normalized.profile}
        profileDef == config.profiles[CHOOSE i \in profiles : \A j \in profiles : i <= j]
        folderDir == expandEnv(Trim(normalized.target))
        startDir == expandEnv(normalized.startIn)
    IN IF profiles = {} THEN Failed("Profil nicht gefunden")
       ELSE IF ~HasPage(profileDef, normalized.page) THEN Failed("Seite nicht gefunden")
       ELSE IF Filled(normalized, "launcherKey") /\ ~launcherFound(normalized.launcherKey)
            THEN Failed("Launcher nicht gefunden")
       ELSE IF normalized.type = "folder" /\ ~hasTemplateSyntax(Trim(normalized.target))
               /\ ~dirExists(folderDir)
            THEN Failed("Ordner nicht gefunden: " \o folderDir)
       ELSE IF normalized.type = "app" /\ Filled(normalized, "startIn")
               /\ hasTemplateSyntax(normalized.startIn)
            THEN Failed("Template-Startordner sind nicht erlaubt")
       ELSE IF normalized.type = "app" /\ Filled(normalized, "startIn") /\ ~dirExists(startDir)
            THEN Failed("Startordner nicht gefunden: " \o startDir)
       ELSE Accepted(
              [f \in DOMAIN normalized |->
                 IF f = "target" /\ normalized.type = "folder"
                    /\ ~hasTemplateSyntax(Trim(normalized.target)) THEN folderDir
                 ELSE IF f = "startIn" /\ normalized.type = "app" THEN startDir
                 ELSE normalized[f]])

\* sanitizeCustomTile(input, existing); gen is the id it generates when the
\* input has none
sanitizeCustomTile(input, existing, gen) ==
    LET raw == IF IsObjLike(input) THEN input ELSE Obj(EmptyRec)
        accepted(normalized) ==
            IF normalized = NoTile THEN Failed("ungueltige Tile Daten")
            ELSE IF normalized.builtin THEN Failed("ungueltige Tile Daten")
            ELSE sanitizeChecked(normalized)
        checked(draft) ==
            IF \E f \in {"id", "profile", "page", "label", "type"} : draft.o[f].s = ""
            THEN Failed("Tile Daten unvollstaendig")
            ELSE IF draft.o.type.s \notin TILE_TYPES THEN Failed("Tile Typ nicht erlaubt")
            ELSE IF Len(draft.o.iconData.s) > MAX_ICON_DATA_URL_LEN THEN Failed("Icon zu gross")
            ELSE IF NonBlankStr(Prop(raw, "target")) /\ assertSafeInputThrows(Prop(raw, "target"))
                 THEN Failed("target zu lang")
            ELSE IF NonBlankStr(Prop(raw, "startIn")) /\ assertSafeInputThrows(Prop(raw, "startIn"))
                 THEN Failed("startIn zu lang")
            ELSE accepted(normalizeTile(draft))
    IN checked(customTileDraft(raw, existing, gen))

\* POST /api/tiles/upsert with a handler that pushes the tile whether or
\* not its id is stored
upsertOutcome_AlwaysPush(body, gen) ==
    LET incoming == OptProp(body, "tile")
        id == Trim(StrOr(Prop(incoming, "id")))
        at == IF id # "" THEN FindTile(config.tiles, id) ELSE 0
        existing == IF at > 0 THEN config.tiles[at] ELSE NoTile
        stored(safe) ==
            IF ~safe.ok
            THEN [status |-> 400, error |-> safe.error, tiles |-> config.tiles, tile |-> NoTile]
            ELSE [status |-> 200, error |-> "", tiles |-> Append(config.tiles, safe.tile),
                  tile |-> safe.tile]
    IN IF ~IsObjLike(incoming)
       THEN [status |-> 400, error |-> "tile fehlt", tiles |-> config.tiles, tile |-> NoTile]
       ELSE IF existing # NoTile /\ existing.builtin
       THEN [status |-> 400, error |-> "builtin tiles koennen nicht ueberschrieben werden",
             tiles |-> config.tiles, tile |-> NoTile]
       ELSE stored(sanitizeCustomTile(incoming, existing, gen))

\* POST /api/tiles/upsert, from the body to the point where the
\* configuration is persisted: the status, and config.tiles afterwards
upsertOutcome(body, gen) ==
    LET incoming == OptProp(body, "tile")
        id == Trim(StrOr(Prop(incoming, "id")))
        at == IF id # "" THEN FindTile(config.tiles, id) ELSE 0
        existing == IF at > 0 THEN config.tiles[at] ELSE NoTile
        placed(tile, idx) ==
            [status |-> 200, error |-> "",
             tiles |-> IF idx > 0 THEN [config.tiles EXCEPT ![idx] = tile]
                       ELSE Append(config.tiles, tile),
             tile |-> tile]
        stored(safe) ==
            IF ~safe.ok
            THEN [status |-> 400, error |-> safe.error, tiles |-> config.tiles, tile |-> NoTile]
            ELSE placed(safe.tile, FindTile(config.tiles, safe.tile.id))
    IN IF ~IsObjLike(incoming)
       THEN [status |-> 400, error |-> "tile fehlt", tiles |-> config.tiles, tile |-> NoTile]
       ELSE IF existing # NoTile /\ existing.builtin
       THEN [status |-> 400, error |-> "builtin tiles koennen nicht ueberschrieben werden",
             tiles |-> config.tiles, tile |-> NoTile]
       ELSE stored(sanitizeCustomTile(incoming, existing, gen))

\* POST /api/tiles/delete, likewise
deleteOutcome(body) ==
    LET id == Trim(StrOr(OptProp(body, "id")))
        at == FindTile(config.tiles, id)
    IN IF id = "" THEN [status |-> 400, error |-> "id fehlt", tiles |-> config.tiles]
       ELSE IF at = 0
       THEN [status |-> 404, error |-> "tile nicht gefunden", tiles |-> config.tiles]
       ELSE IF config.tiles[at].builtin
       THEN [status |-> 400, error |-> "builtin tile kann nicht geloescht werden",
             tiles |-> config.tiles]
       ELSE [status |-> 200, error |-> "",
             tiles |-> AtIndices(config.tiles,
                                 {i \in DOMAIN config.tiles : config.tiles[i].id # id})]

\* POST /api/settings/import, up to the point where it persists; rnd is the
\* token randomToken() would draw.  cloneConfigData is a JSON round trip,
\* which leaves a value parsed from JSON as it is.
importOutcome(body, rnd) ==
    LET b == IF IsObjLike(body) THEN body ELSE Obj(EmptyRec)
        incoming == Prop(b, "config")
        keepCurrentToken == Prop(b, "keepCurrentToken") # B(FALSE)
        applied(imported) ==
            IF imported = Thrown
            THEN [status |-> 400, error |-> "TypeError", config |-> config]
            ELSE [status |-> 200, error |-> "",
                  config |-> IF keepCurrentToken THEN [imported EXCEPT !.token = config.token]
                             ELSE imported]
    IN IF incoming.k # "obj"
       THEN [status |-> 400, error |-> "config object fehlt", config |-> config]
       ELSE applied(mergeWithDefaults(incoming, rnd))

\* POST /api/settings/launcher, likewise.  For a key found only on
\* Object.prototype the path is set on that inherited object and the
\* configuration's own data stays as it is.
launcherOutcome(body) ==
    LET id == safeTrim(OptProp(body, "id"), ID_MAX_LEN)
        requested == Trim(StrOr(OptProp(body, "path")))
        newPath == IF requested # "" THEN expandEnv(requested) ELSE ""
    IN IF assertSafeInputThrows(OptProp(body, "path"))
       THEN [status |-> 400, error |-> "path zu lang", launchers |-> config.launchers]
       ELSE IF id = ""
       THEN [status |-> 400, error |-> "id fehlt", launchers |-> config.launchers]
       ELSE IF ~launcherFound(id)
       THEN [status |-> 404, error |-> "launcher nicht gefunden", launchers |-> config.launchers]
       ELSE [status |-> 200, error |-> "",
             launchers |-> IF id \in DOMAIN config.launchers
                           THEN [config.launchers EXCEPT ![id].path = newPath]
                           ELSE config.launchers]

\* the tile as GET /api/tiles/:id returns it
tileView(t) ==
    t @@ [args |-> <<>>, target |-> "", launcherKey |-> "", action |-> "",
          startIn |-> "", iconData |-> ""]

\* sanitizeAiModel: safeTrim has removed the line breaks it would throw on
sanitizeAiModel(value) ==
    LET named(model) == IF model = "" THEN DEFAULT_AI_MODEL ELSE model
    IN named(safeTrim(value, AI_MODEL_MAX_LEN))

\* sanitizeAiApiKey, "" included; sanitizeAiApiKeyThrows tells when it throws
sanitizeAiApiKey(value) == safeTrim(value, AI_KEY_MAX_LEN)
sanitizeAiApiKeyThrows(value) ==
    sanitizeAiApiKey(value) # "" /\ Len(sanitizeAiApiKey(value)) < AI_KEY_MIN_LEN

\* Object.prototype.hasOwnProperty.call(body, key)
HasOwn(body, key) == body.k = "obj" /\ key \in DOMAIN body.o

\* STREAMDECK_AI_API_KEY or OPENAI_API_KEY is set in the environment
hasEnvKey == \E name \in {"STREAMDECK_AI_API_KEY", "OPENAI_API_KEY"} :
                name \in DOMAIN EnvVars /\ safeTrimStr(EnvVars[name], AI_KEY_MAX_LEN) # ""

\* POST /api/settings/ai up to its await, or to its end where it does not
\* wait: the configuration as the handler has edited it so far, and what
\* comes next: an answer, the verification of the key, or the persist
aiOutcome(body) ==
    LET b == IF IsObjLike(body) THEN body ELSE Obj(EmptyRec)
        hasModelField == HasOwn(b, "model")
        hasKeyField == HasOwn(b, "openAiApiKey")
        verify == Prop(b, "verify") # B(FALSE)
        edited == IF hasModelField
                  THEN [config EXCEPT !.ai.model = sanitizeAiModel(Prop(b, "model"))]
                  ELSE config
        newKey == sanitizeAiApiKey(Prop(b, "openAiApiKey"))
        out(next, status, error, c) ==
            [next |-> next, status |-> status, error |-> error, config |-> c,
             key |-> newKey, edited |-> hasModelField]
    IN IF ~hasModelField /\ ~hasKeyField
       THEN out("answer", 400, "mindestens model oder openAiApiKey angeben", config)
       ELSE IF ~hasKeyField THEN out("persist", 200, "", edited)
       ELSE IF hasEnvKey
       THEN out("answer", 409, "API key wird per Umgebungsvariable gesetzt", edited)
       ELSE IF sanitizeAiApiKeyThrows(Prop(b, "openAiApiKey"))
       THEN out("answer", 400, "api key zu kurz", edited)
       ELSE IF newKey # "" /\ verify THEN out("await", 0, "", edited)
       ELSE out("persist", 200, "", [edited EXCEPT !.ai.openAiApiKey = newKey])

\* tileIsVisible
tileIsVisible(tile, wowRunning) ==
    IF ~Filled(tile, "showIf") THEN TRUE
    ELSE IF tile.showIf = "wowRunning" THEN wowRunning
    ELSE IF tile.showIf = "wowNotRunning" THEN ~wowRunning
    ELSE TRUE

\* defaultTileEmoji, the emoji written as its code point
defaultTileEmoji(type) ==
    LET normalized == ToLower(Trim(type))
    IN CASE normalized = "app" -> "U+1F5A5"
         [] normalized = "folder" -> "U+1F4C1"
         [] normalized = "url" -> "U+1F310"
         [] normalized = "protocol" -> "U+1F517"
         [] normalized = "action" -> "U+26A1"
         [] OTHER -> "U+25A0"

\* the entry of the client's tile list buildClientTiles makes of a tile
clientTile(tile) ==
    [id |-> tile.id, profile |-> tile.profile,
     page |-> IF Filled(tile, "page") THEN tile.page ELSE "main",
     label |-> tile.label,
     subtitle |-> IF Filled(tile, "subtitle") THEN tile.subtitle ELSE "",
     type |-> tile.type, builtin |-> tile.builtin,
     iconMode |-> IF Filled(tile, "iconMode") THEN tile.iconMode ELSE "emoji",
     icon |-> IF Filled(tile, "icon") THEN tile.icon ELSE defaultTileEmoji(tile.type),
     iconData |-> IF Has(tile, "iconMode") /\ tile.iconMode = "image" /\ Filled(tile, "iconData")
                  THEN tile.iconData ELSE "",
     action |-> IF tile.type = "action" /\ Filled(tile, "action") THEN tile.action ELSE ""]

\* the tiles a client is shown
clientTiles(tiles, wowRunning) ==
    AtIndices([i \in DOMAIN tiles |-> clientTile(tiles[i])],
              {i \in DOMAIN tiles : tileIsVisible(tiles[i], wowRunning)})

\* buildClientTiles awaits extractIconDataUrl for the tile
needsIconProbe(tile) ==
    /\ ~(Has(tile, "iconMode") /\ tile.iconMode = "image" /\ Filled(tile, "iconData"))
    /\ \/ Has(tile, "iconMode") /\ tile.iconMode = "auto"
       \/ ~Filled(tile, "icon") /\ tile.type = "app"

\* the loop of buildClientTiles over the array tiles, from index from on
\* with the entries list made so far: it runs to the end of the array, or
\* to the next tile whose icon it awaits, whose entry out is made before the
\* await and pushed after it
RECURSIVE tilesLoop(_, _, _, _)
tilesLoop(tiles, from, list, wowRunning) ==
    IF from > Len(tiles) THEN [done |-> TRUE, at |-> 0, list |-> list, out |-> NoTile]
    ELSE IF ~tileIsVisible(tiles[from], wowRunning)
    THEN tilesLoop(tiles, from + 1, list, wowRunning)
    ELSE IF needsIconProbe(tiles[from])
    THEN [done |-> FALSE, at |-> from, list |-> list, out |-> clientTile(tiles[from])]
    ELSE tilesLoop(tiles, from + 1, Append(list, clientTile(tiles[from])), wowRunning)

\* a call of buildClientTiles suspended at its first await, before it has
\* read the clock, the cache or the tiles
NoBuild ==
    [req |-> NoTile, phase |-> "process", wowRunning |-> FALSE, ts |-> 0, live |-> TRUE,
     tiles |-> <<>>, at |-> 0, list |-> <<>>, out |-> NoTile]

\* buildClientTiles: the payload, and the cache, after the call.  The kept
\* payload is returned while it is younger than CLIENT_TILES_CACHE_MS and
\* was made under the same wowRunning; bumpConfigRevision empties the cache,
\* so a kept payload is always of the current revision.
buildClientTiles(wowRunning) ==
    IF /\ clientTilesCache.filled
       /\ clientTilesCache.wowRunning = wowRunning
       /\ now - clientTilesCache.ts < CLIENT_TILES_CACHE_MS
    THEN clientTilesCache
    ELSE [filled |-> TRUE, ts |-> now, wowRunning |-> wowRunning,
          tiles |-> clientTiles(config.tiles, wowRunning)]

\* the :id of a request to /api/tiles/:id
tileParam(r) == SubSeq(r.path, Len("/api/tiles/") + 1, Len(r.path))

(***************************************************************************)
(* Program index and resolver                                              *)
(***************************************************************************)
APP_FILE_EXTENSIONS == {".exe", ".lnk", ".bat", ".cmd", ".com"}
PROGRAM_INDEX_CACHE_MS == 120000
PROGRAM_LABEL_MAX_LEN == 80
PROGRAM_QUERY_MAX_LEN == 120

MinOf(a, b) == IF a <= b THEN a ELSE b

EndsWith(s, suffix) ==
    Len(s) >= Len(suffix) /\ SubSeq(s, Len(s) - Len(suffix) + 1, Len(s)) = suffix

\* the last index of s that holds a character of set, 0 when there is none
LastIndexIn(s, set) ==
    IF \E i \in 1..Len(s) : CharAt(s, i) \in set
    THEN CHOOSE i \in 1..Len(s) :
            /\ CharAt(s, i) \in set
            /\ \A j \in (i + 1)..Len(s) : CharAt(s, j) \notin set
    ELSE 0

\* the length of the longest prefix of s made of characters of set
RunLen(s, set) ==
    IF \A i \in 1..Len(s) : CharAt(s, i) \in set THEN Len(s)
    ELSE (CHOOSE i \in 1..Len(s) :
            /\ CharAt(s, i) \notin set
            /\ \A j \in 1..(i - 1) : CharAt(s, j) \in set) - 1

\* path.basename(p) and path.extname(p) of path.win32
basename(p) == SubSeq(p, LastIndexIn(p, {"\\", "/"}) + 1, Len(p))

extname(p) ==
    LET base == basename(p)
        dot == LastIndexIn(base, {"."})
    IN IF dot <= 1 THEN "" ELSE SubSeq(base, dot, Len(base))

\* path.basename(p, ext): the extension is compared as it is spelled
basenameWithout(p, ext) ==
    LET base == basename(p)
    IN IF ext # "" /\ base # ext /\ EndsWith(base, ext)
       THEN SubSeq(base, 1, Len(base) - Len(ext)) ELSE base

\* path.join of two parts, the first of which may be empty
pathJoin(a, b) == IF a = "" THEN b ELSE a \o "\\" \o b

isAppLaunchFilePath(p) == ToLower(extname(p)) \in APP_FILE_EXTENSIONS

\* unquoteWrapped applied to a string
unquoteWrapped(value) ==
    LET text == Trim(value)
    IN IF \E q \in {"\"", "'"} : StartsWith(text, q) /\ EndsWith(text, q)
       THEN Trim(SubSeq(text, 2, Len(text) - 1))
       ELSE text

\* s.replace(/[-_]+/g, " ").replace(/\s+/g, " ")
RECURSIVE SpaceOut(_)
SpaceOut(s) ==
    LET blank == {" ", "\t", "\n", "\r", "\f", "-", "_"}
        n == RunLen(s, blank)
    IN IF s = "" THEN ""
       ELSE IF n > 0 THEN " " \o SpaceOut(SubSeq(s, n + 1, Len(s)))
       ELSE CharAt(s, 1) \o SpaceOut(SubSeq(s, 2, Len(s)))

\* the class \w
WordChars == Letters \cup UpperChars \cup Digits \cup {"_"}

NoiseWords == {"x64", "x86", "launcher", "setup"}

\* s.replace(/\b(x64|x86|launcher|setup)\b/gi, ""): a match between two
\* word boundaries is a whole run of word characters
RECURSIVE DropNoiseWords(_)
DropNoiseWords(s) ==
    LET n == RunLen(s, WordChars)
        word == SubSeq(s, 1, n)
    IN IF s = "" THEN ""
       ELSE IF n = 0 THEN CharAt(s, 1) \o DropNoiseWords(SubSeq(s, 2, Len(s)))
       ELSE (IF ToLower(word) \in NoiseWords THEN "" ELSE word)
            \o DropNoiseWords(SubSeq(s, n + 1, Len(s)))

normalizeProgramLabel(filePath) ==
    Trim(DropNoiseWords(SpaceOut(basenameWithout(filePath, extname(filePath)))))

\* s.replace(/[^a-z0-9]+/g, ""), by halves
RECURSIVE OnlyAlphaNum(_)
OnlyAlphaNum(s) ==
    IF \A i \in 1..Len(s) : CharAt(s, i) \in Letters \cup Digits THEN s
    ELSE IF Len(s) = 1 THEN ""
    ELSE LET h == Len(s) \div 2
         IN OnlyAlphaNum(SubSeq(s, 1, h)) \o OnlyAlphaNum(SubSeq(s, h + 1, Len(s)))

normalizeProgramMatchKey(value, stripExt) ==
    LET raw == ToLower(Trim(value))
        text == IF stripExt /\ \E e \in APP_FILE_EXTENSIONS : EndsWith(raw, e)
                THEN SubSeq(raw, 1, Len(raw) - 4) ELSE raw
    IN OnlyAlphaNum(text)

\* q.split(/\s+/).filter(Boolean)
RECURSIVE Tokens(_)
Tokens(q) ==
    LET ws == {" ", "\t", "\n", "\r", "\f"}
        n == RunLen(q, ws)
        rest == SubSeq(q, n + 1, Len(q))
        m == IF \E i \in 1..Len(rest) : CharAt(rest, i) \in ws
             THEN (CHOOSE i \in 1..Len(rest) :
                      /\ CharAt(rest, i) \in ws
                      /\ \A j \in 1..(i - 1) : CharAt(rest, j) \notin ws) - 1
             ELSE Len(rest)
    IN IF rest = "" THEN <<>>
       ELSE <<SubSeq(rest, 1, m)>> \o Tokens(SubSeq(rest, m + 1, Len(rest)))

programSourcePriority(source) ==
    CASE source = "launcherPath" -> 120
      [] source = "launcherCandidate" -> 95
      [] source = "startMenu" -> 80
      [] source = "localPrograms" -> 70
      [] source = "programFiles" -> 60
      [] source = "desktop" -> 45
      [] OTHER -> 20

\* what one token of the query adds to the score of an entry
tokenScore(entry, token) ==
    (IF entry.labelLower = token THEN 220
     ELSE IF StartsWith(entry.labelLower, token) THEN 120
     ELSE IF Includes(entry.labelLower, token) THEN 70 ELSE 0)
    + (IF entry.fileLower \in {token, token \o ".exe", token \o ".lnk"} THEN 120
       ELSE IF StartsWith(entry.fileLower, token) THEN 65
       ELSE IF Includes(entry.fileLower, token) THEN 30 ELSE 0)
    + (IF Includes(entry.pathLower, "\\" \o token) THEN 12 ELSE 0)

RECURSIVE tokensScore(_, _)
tokensScore(entry, tokens) ==
    IF tokens = <<>> THEN 0
    ELSE tokenScore(entry, Head(tokens)) + tokensScore(entry, Tail(tokens))

\* what the text of the query adds to the score of an entry
textScore(entry, q) ==
    LET queryKey == normalizeProgramMatchKey(q, FALSE)
        queryBaseKey == normalizeProgramMatchKey(q, TRUE)
    IN (IF queryKey # "" /\ queryKey = entry.fileKey THEN 260 ELSE 0)
       + (IF queryBaseKey # "" /\ queryBaseKey = entry.fileBaseKey THEN 240 ELSE 0)
       + (IF queryBaseKey # "" /\ queryBaseKey = entry.labelKey THEN 190 ELSE 0)
       + tokensScore(entry, Tokens(q))

scoreProgram(entry, query) ==
    LET q == ToLower(Trim(query))
    IN programSourcePriority(entry.source) + (IF q = "" THEN 0 ELSE textScore(entry, q))

\* the order of the characters under localeCompare(…, "de", {sensitivity:
\* "base"}), which tells neither case nor accents apart: white space,
\* punctuation, symbols, digits, letters
CollationOrder == " _-,;:!?.'\"()[]{}@*/\\&#%+<=>|~$0123456789abcdefghijklmnopqrstuvwxyz"

CollationRank(c) ==
    IF \E i \in 1..Len(CollationOrder) : CharAt(CollationOrder, i) = c
    THEN CHOOSE i \in 1..Len(CollationOrder) : CharAt(CollationOrder, i) = c
    ELSE Len(CollationOrder) + 1

\* a.localeCompare(b, "de", {sensitivity: "base"}) < 0
localeBefore(a, b) ==
    LET before(x, y) ==
            LET short == MinOf(Len(x), Len(y))
                \* the first place where the two differ
                d == CHOOSE i \in 1..(short + 1) :
                        /\ SubSeq(x, 1, i - 1) = SubSeq(y, 1, i - 1)
                        /\ i > short \/ CharAt(x, i) # CharAt(y, i)
            IN IF d > short THEN Len(x) < Len(y)
               ELSE CollationRank(CharAt(x, d)) < CollationRank(CharAt(y, d))
    IN before(ToLower(a), ToLower(b))

\* Array.prototype.sort, which is stable; before[i][j] tells whether the
\* comparison puts entry i of the list in front of entry j
Sorted(seq, before) ==
    LET pos == [i \in DOMAIN seq |->
                  1 + Cardinality({j \in DOMAIN seq :
                        \/ before[j][i]
                        \/ ~before[i][j] /\ j < i})]
        sorted(at) == [k \in DOMAIN seq |-> seq[CHOOSE i \in DOMAIN seq : at[i] = k]]
    IN sorted(pos)

\* a list of strings sorted by localeCompare
SortedStrings(seq) ==
    Sorted(seq, [i \in DOMAIN seq |-> [j \in DOMAIN seq |-> localeBefore(seq[i], seq[j])]])

\* a list of entries, or of ranked entries, sorted by label
SortedByLabel(seq) ==
    Sorted(seq, [i \in DOMAIN seq |-> [j \in DOMAIN seq |->
                    localeBefore(seq[i].label, seq[j].label)]])

\* the entry add() makes of a file, "none" for a file it passes over
programEntry(filePath, source, labelHint) ==
    LET safePath == Trim(filePath)
        ext == ToLower(extname(safePath))
        fileName == ToLower(basename(safePath))
        base == basenameWithout(safePath, ext)
        hinted == IF labelHint # "" THEN labelHint
                  ELSE IF normalizeProgramLabel(safePath) # "" THEN normalizeProgramLabel(safePath)
                  ELSE base
        label == safeTrimStr(hinted, PROGRAM_LABEL_MAX_LEN)
    IN IF safePath = "" \/ ~fileExists(safePath) \/ ~isAppLaunchFilePath(safePath)
       THEN [source |-> "none"]
       ELSE [label |-> IF label # "" THEN label ELSE base,
             path |-> safePath,
             source |-> source,
             ext |-> ext,
             fileName |-> fileName,
             labelLower |-> ToLower(label),
             fileLower |-> fileName,
             pathLower |-> ToLower(safePath),
             labelKey |-> normalizeProgramMatchKey(label, TRUE),
             fileKey |-> normalizeProgramMatchKey(fileName, FALSE),
             fileBaseKey |-> normalizeProgramMatchKey(fileName, TRUE)]

\* os.homedir() and process.env.PATH split at ";"
HomeDir == "C:\\Users\\deck"
PathDirs == <<"C:\\Windows">>

EnvOr(name, fallback) == IF name \in DOMAIN EnvVars THEN EnvVars[name] ELSE fallback

getSearchRoots ==
    LET roots == uniqStr(<<
            pathJoin(EnvOr("LOCALAPPDATA", ""), "Programs"),
            EnvOr("ProgramFiles", "C:\\Program Files"),
            EnvOr("ProgramFiles(x86)", "C:\\Program Files (x86)"),
            pathJoin(EnvOr("APPDATA", ""), "Microsoft\\Windows\\Start Menu\\Programs"),
            pathJoin(EnvOr("ProgramData", "C:\\ProgramData"),
                     "Microsoft\\Windows\\Start Menu\\Programs"),
            pathJoin(HomeDir, "Desktop")>>)
    IN AtIndices(roots, {i \in DOMAIN roots : dirExists(roots[i])})

\* the source buildProgramIndex gives the files under a search root
rootSource(root) ==
    IF Includes(ToLower(root), "start menu") THEN "startMenu"
    ELSE IF Includes(ToLower(root), "localappdata") THEN "localPrograms"
    ELSE IF EndsWith(ToLower(root), "\\desktop") THEN "desktop"
    ELSE "programFiles"

START_MENU_MAX_DEPTH == 4
ROOT_MAX_DEPTH == 3

\* how many directories below the root the file lies
DepthBelow(root, file) ==
    LET rest == SubSeq(file, Len(root) + 2, Len(file))
    IN Cardinality({i \in 1..Len(rest) : CharAt(rest, i) = "\\"})

RECURSIVE SetToSeq(_)
SetToSeq(set) ==
    IF set = {} THEN <<>>
    ELSE LET x == CHOOSE x \in set : TRUE IN <<x>> \o SetToSeq(set \ {x})

\* collectLaunchableFiles: the launchable files at most maxDepth directories
\* below rootDir, in the order of their names; the file systems of this
\* model stay far below maxFiles
collectLaunchableFiles(rootDir, maxDepth) ==
    IF ~dirExists(rootDir) THEN <<>>
    ELSE SortedStrings(SetToSeq({f \in fsys.files :
                                   /\ StartsWith(f, rootDir \o "\\")
                                   /\ DepthBelow(rootDir, f) <= maxDepth
                                   /\ isAppLaunchFilePath(f)}))

RECURSIVE Flatten(_)
Flatten(lists) == IF lists = <<>> THEN <<>> ELSE Head(lists) \o Flatten(Tail(lists))

\* Object.entries(config.launchers): the built-in launchers come first, in
\* the order of getDefaultLaunchers, then those the configuration added
DefaultLauncherKeys == <<"vscode", "wow", "obs", "curseforge">>

launcherKeys(launchers) ==
    LET builtin == {DefaultLauncherKeys[i] : i \in DOMAIN DefaultLauncherKeys}
    IN AtIndices(DefaultLauncherKeys,
                 {i \in DOMAIN DefaultLauncherKeys : DefaultLauncherKeys[i] \in DOMAIN launchers})
       \o SortedStrings(SetToSeq(DOMAIN launchers \ builtin))

\* the calls of add() in buildProgramIndex, in order
programCandidates ==
    LET keys == launcherKeys(config.launchers)
        ofLauncher(key) ==
            LET launcher == config.launchers[key]
                label == safeTrimStr(IF launcher.label # "" THEN launcher.label ELSE key,
                                     PROGRAM_LABEL_MAX_LEN)
            IN <<programEntry(expandEnv(launcher.path), "launcherPath", label)>>
               \o [i \in DOMAIN launcher.candidates |->
                     programEntry(expandEnv(launcher.candidates[i]), "launcherCandidate", label)]
        ofRoot(root) ==
            LET source == rootSource(root)
                files == collectLaunchableFiles(root, IF source = "startMenu"
                                                      THEN START_MENU_MAX_DEPTH
                                                      ELSE ROOT_MAX_DEPTH)
            IN [i \in DOMAIN files |-> programEntry(files[i], source, "")]
        ofRoots(roots) == Flatten([i \in DOMAIN roots |-> ofRoot(roots[i])])
    IN Flatten([i \in DOMAIN keys |-> ofLauncher(keys[i])]) \o ofRoots(getSearchRoots)

\* the index built anew: one entry for a path, the first one added, in the
\* order of the labels
scanPrograms ==
    LET entriesOf(added) ==
            SortedByLabel(AtIndices(added, {i \in DOMAIN added :
                             /\ added[i].source # "none"
                             /\ \A j \in 1..(i - 1) :
                                   added[j].source = "none"
                                   \/ added[j].pathLower # added[i].pathLower}))
    IN entriesOf(programCandidates)

\* programIndexCache before the first build, and after
\* invalidateProgramIndexCache
NoIndex == [ts |-> 0, entries |-> <<>>]

\* buildProgramIndex: programIndexCache as the call leaves it
buildProgramIndex ==
    IF programIndexCache.entries # <<>> /\ now - programIndexCache.ts < PROGRAM_INDEX_CACHE_MS
    THEN programIndexCache
    ELSE [ts |-> now, entries |-> scanPrograms]

RANK_LIMIT_DEFAULT == 25
RANK_LIMIT_MAX == 100
RESOLVE_RANK_LIMIT == 8

\* rankPrograms with the lowest score first
rankPrograms_WeakestFirst(entries, query, limit, includeWeakMatches) ==
    LET max == MaxOf(1, MinOf(RANK_LIMIT_MAX, IF limit # 0 THEN limit ELSE RANK_LIMIT_DEFAULT))
        q == ToLower(safeTrimStr(query, PROGRAM_QUERY_MAX_LEN))
        rows == [i \in DOMAIN entries |-> [entry |-> entries[i], score |-> scoreProgram(entries[i], q)]]
        kept == AtIndices(rows, {i \in DOMAIN rows :
                    \/ q = ""
                    \/ includeWeakMatches
                    \/ rows[i].score > programSourcePriority(rows[i].entry.source)})
        ranked(list) ==
            Sorted(list, [i \in DOMAIN list |-> [j \in DOMAIN list |->
                \/ list[i].score < list[j].score
                \/ /\ list[i].score = list[j].score
                   /\ localeBefore(list[i].entry.label, list[j].entry.label)]])
    IN Slice0(ranked(kept), max)

\* rankPrograms over the entries buildProgramIndex returned
rankPrograms(entries, query, limit, includeWeakMatches) ==
    LET max == MaxOf(1, MinOf(RANK_LIMIT_MAX, IF limit # 0 THEN limit ELSE RANK_LIMIT_DEFAULT))
        q == ToLower(safeTrimStr(query, PROGRAM_QUERY_MAX_LEN))
        rows == [i \in DOMAIN entries |-> [entry |-> entries[i], score |-> scoreProgram(entries[i], q)]]
        kept == AtIndices(rows, {i \in DOMAIN rows :
                    \/ q = ""
                    \/ includeWeakMatches
                    \/ rows[i].score > programSourcePriority(rows[i].entry.source)})
        ranked(list) ==
            Sorted(list, [i \in DOMAIN list |-> [j \in DOMAIN list |->
                \/ list[i].score > list[j].score
                \/ /\ list[i].score = list[j].score
                   /\ localeBefore(list[i].entry.label, list[j].entry.label)]])
    IN Slice0(ranked(kept), max)

WIDE_MARGIN == 80
LAUNCHER_MARGIN == 55

chooseBestProgramMatch(ranked) ==
    IF ranked = <<>> THEN ""
    ELSE IF Len(ranked) = 1 THEN ranked[1].entry.path
    ELSE IF ranked[1].score >= ranked[2].score + WIDE_MARGIN THEN ranked[1].entry.path
    ELSE IF ranked[1].score >= ranked[2].score + LAUNCHER_MARGIN
            /\ ranked[1].entry.source = "launcherPath" THEN ranked[1].entry.path
    ELSE ""

\* findCommandOnPath
findCommandOnPath(input) ==
    LET raw == safeTrimStr(input, PROGRAM_QUERY_MAX_LEN)
        dirs == AtIndices(PathDirs, {i \in DOMAIN PathDirs : dirExists(PathDirs[i])})
        names == IF Includes(raw, ".") THEN <<raw>>
                 ELSE <<raw \o ".exe", raw \o ".cmd", raw \o ".bat", raw \o ".com">>
        tried == Flatten([d \in DOMAIN dirs |-> [n \in DOMAIN names |-> pathJoin(dirs[d], names[n])]])
        found == {i \in DOMAIN tried : fileExists(tried[i])}
    IN IF raw = "" \/ \E c \in {"\\", "/", ":"} : Includes(raw, c) THEN ""
       ELSE IF found = {} THEN ""
       ELSE tried[CHOOSE i \in found : \A j \in found : i <= j]

\* Array.prototype.find: the entry of the list at the first of the indices
\* hits, "none" when there is none
FirstAt(list, hits) ==
    IF hits = {} THEN [source |-> "none"]
    ELSE list[CHOOSE i \in hits : \A j \in hits : i <= j]

KEY_MIN_LEN == 4

\* the three ways in which resolveProgramPath takes an entry for the query
\* before it leaves the choice to the scores
exactMatch(x, lowered) ==
    LET queryKey == normalizeProgramMatchKey(lowered, FALSE)
        queryBaseKey == normalizeProgramMatchKey(lowered, TRUE)
    IN \/ ToLower(x.label) = lowered
       \/ ToLower(basename(x.path)) = lowered
       \/ ToLower(basenameWithout(x.path, extname(x.path))) = lowered
       \/ queryKey # "" /\ x.fileKey = queryKey
       \/ queryBaseKey # "" /\ (x.fileBaseKey = queryBaseKey \/ x.labelKey = queryBaseKey)

exeNameMatch(x, lowered) == x.fileLower = lowered \/ x.fileLower = lowered \o ".exe"

nearMatch(best, lowered) ==
    LET queryBaseKey == normalizeProgramMatchKey(lowered, TRUE)
    IN /\ Len(queryBaseKey) >= KEY_MIN_LEN
       /\ \/ Includes(best.fileBaseKey, queryBaseKey)
          \/ Includes(queryBaseKey, best.fileBaseKey)
          \/ Includes(best.labelKey, queryBaseKey)

\* resolveProgramPath from the expanded input on, over the entries
\* buildProgramIndex returned
resolveInIndex(entries, expanded) ==
    LET lowered == ToLower(expanded)
        chosen(ranked) ==
            LET candidates == [i \in DOMAIN ranked |-> ranked[i].entry]
                exact == FirstAt(candidates, {i \in DOMAIN candidates :
                                                  exactMatch(candidates[i], lowered)})
                byExeName == FirstAt(candidates, {i \in DOMAIN candidates :
                                                      exeNameMatch(candidates[i], lowered)})
            IN IF ranked = <<>> THEN ""
               ELSE IF exact.source # "none" THEN exact.path
               ELSE IF byExeName.source # "none" THEN byExeName.path
               ELSE IF nearMatch(ranked[1].entry, lowered) THEN ranked[1].entry.path
               ELSE chooseBestProgramMatch(ranked)
    IN chosen(rankPrograms(entries, expanded, RESOLVE_RANK_LIMIT, TRUE))

\* where resolveProgramPath finds its answer: "none" (no input), "file" (the
\* input is a launchable file), "path" (a command on PATH), "index"
resolveStage(input) ==
    LET raw == unquoteWrapped(safeTrimStr(input, MAX_PATH_LEN))
        expanded == expandEnv(raw)
    IN IF raw = "" THEN "none"
       ELSE IF fileExists(expanded) /\ isAppLaunchFilePath(expanded) THEN "file"
       ELSE IF findCommandOnPath(expanded) # "" THEN "path"
       ELSE "index"

\* resolveProgramPath, over the entries buildProgramIndex returned
resolveProgramPath(entries, input) ==
    LET expanded == expandEnv(unquoteWrapped(safeTrimStr(input, MAX_PATH_LEN)))
        stage == resolveStage(input)
    IN CASE stage = "none" -> ""
         [] stage = "file" -> expanded
         [] stage = "path" -> findCommandOnPath(expanded)
         [] OTHER -> resolveInIndex(entries, expanded)

(***************************************************************************)
(* Tile execution                                                          *)
(***************************************************************************)
\* the fields of the configuration the model does not carry, as
\* createDefaultConfig sets them
CONFIG_PORT == 8787
WorkspaceDir == "C:\\StreamDeck"
WowBase == "C:\\Program Files (x86)\\World of Warcraft\\_anniversary_"
WowFolders == [addons |-> WowBase \o "\\Interface\\AddOns", logs |-> WowBase \o "\\Logs",
               wtf |-> WowBase \o "\\WTF"]

\* getByPath(config, dottedPath), for the paths that lead to a string
getByPath(dottedPath) ==
    CASE dottedPath = "workspaceDir" -> S(WorkspaceDir)
      [] dottedPath = "wow.folders.addons" -> S(WowFolders.addons)
      [] dottedPath = "wow.folders.logs" -> S(WowFolders.logs)
      [] dottedPath = "wow.folders.wtf" -> S(WowFolders.wtf)
      [] dottedPath = "wow.processName" -> S(WOW_PROCESS_NAME)
      [] dottedPath = "token" -> S(config.token)
      [] dottedPath = "ai.model" -> S(config.ai.model)
      [] dottedPath = "ai.openAiApiKey" -> S(config.ai.openAiApiKey)
      [] OTHER -> Undef

resolveTemplate(value) ==
    IF StartsWith(value, "{{") /\ EndsWith(value, "}}") /\ Len(value) > 4
    THEN LET got == getByPath(Trim(SubSeq(value, 3, Len(value) - 2)))
         IN IF IsStr(got) THEN expandEnv(got.s) ELSE ""
    ELSE expandEnv(value)

resolveLauncherPath(key) ==
    IF key \in DOMAIN config.launchers THEN expandEnv(Trim(config.launchers[key].path))
    ELSE ""

resolveTileTarget(tile) ==
    IF Filled(tile, "launcherKey") THEN resolveLauncherPath(tile.launcherKey)
    ELSE IF Has(tile, "target") THEN unquoteWrapped(resolveTemplate(tile.target))
    ELSE ""

\* the command of splitLaunchTargetInput, for an input that names an
\* existing file or has no white space inside, of which parseCommandArgs
\* makes one token; the split has no arguments then
splitLaunchTargetInput(rawInput) ==
    LET raw == safeTrimStr(rawInput, MAX_PATH_LEN)
        direct == unquoteWrapped(raw)
        expandedDirect == expandEnv(direct)
    IN IF raw = "" THEN ""
       ELSE IF fileExists(expandedDirect) /\ isAppLaunchFilePath(expandedDirect)
       THEN expandedDirect
       ELSE IF ToLower(extname(raw)) \in {".exe", ".lnk", ".bat", ".cmd", ".com"}
               /\ Len(raw) > Len(extname(raw))
       THEN expandEnv(unquoteWrapped(raw))
       ELSE direct

\* what a run comes to: the processes it handed to spawn, and the error it
\* threw, "" when it threw none
Ran(list) == [error |-> "", started |-> list]
RunThrew(msg) == [error |-> msg, started |-> <<>>]

\* spawnDetached: the cwd is dropped when it is not a directory
spawnDetached(command, args, cwd) ==
    [command |-> command, args |-> args, cwd |-> IF dirExists(cwd) THEN cwd ELSE ""]

startViaCmd(target, args, cwd) ==
    spawnDetached("cmd.exe", <<"/c", "start", "", target>> \o args, cwd)

\* the page of the server's own panel runNamedAction opens
panelUrl(query) == "http://localhost:" \o NatToStr(CONFIG_PORT) \o "/StreamDeck.html?" \o query

resolveCurseForgeExecutablePath ==
    LET launcher == config.launchers.curseforge
        candidates == <<resolveLauncherPath("curseforge")>> \o
                      [i \in DOMAIN launcher.candidates |-> expandEnv(Trim(launcher.candidates[i]))]
        hits == {i \in DOMAIN candidates :
                    /\ candidates[i] # "" /\ fileExists(candidates[i])
                    /\ ToLower(basename(candidates[i])) = "curseforge.exe"}
    IN IF hits = {} THEN "" ELSE candidates[CHOOSE i \in hits : \A j \in hits : i <= j]

\* the branches of runNamedAction that look at the request or the machine
runBrowser(url) ==
    IF url = "" THEN RunThrew("ungueltige URL") ELSE Ran(<<startViaCmd(url, <<>>, "")>>)

runCurseforge(exe) ==
    Ran(<<startViaCmd(IF exe # "" THEN exe ELSE "https://www.curseforge.com/download/app",
                      <<>>, "")>>)

runWowStart(wowExe) ==
    IF wowExe = "" THEN RunThrew("WoW Launcher fehlt")
    ELSE IF ~fileExists(wowExe) THEN RunThrew("WoW Launcher nicht gefunden: " \o wowExe)
    ELSE Ran(<<startViaCmd(wowExe, <<>>, ""), startViaCmd(panelUrl("profile=wow"), <<>>, "")>>)

\* assertFolderPath(value, label) and the explorer it is opened in
openFolder(value, label) ==
    IF Trim(value) = "" THEN RunThrew(label \o " fehlt")
    ELSE IF ~dirExists(Trim(value)) THEN RunThrew(label \o " nicht gefunden: " \o Trim(value))
    ELSE Ran(<<startViaCmd("explorer.exe", <<Trim(value)>>, "")>>)

safeWorkspaceDir ==
    IF dirExists(resolveTemplate("{{workspaceDir}}")) THEN resolveTemplate("{{workspaceDir}}")
    ELSE WorkspaceDir

runNamedAction(name, payload) ==
    LET action == Trim(name)
    IN CASE action = "" -> RunThrew("Action fehlt")
         [] action = "terminal" -> Ran(<<startViaCmd("wt.exe", <<>>, "")>>)
         [] action = "powershell" -> Ran(<<startViaCmd("powershell.exe", <<"-NoExit">>, "")>>)
         [] action = "browser" ->
              runBrowser(normalizeHttpUrl(StrOr(FirstTruthy(Prop(payload, "url"),
                                                            Prop(payload, "target"),
                                                            S("https://google.com")))))
         [] action = "discord" -> Ran(<<startViaCmd("discord://", <<>>, "")>>)
         [] action = "streamingSoundboard" ->
              Ran(<<startViaCmd(panelUrl("profile=streaming&page=main&panel=streamingSoundboard"),
                                <<>>, "")>>)
         [] action = "wowNavigator" ->
              Ran(<<startViaCmd(panelUrl("profile=gaming&page=addons&panel=wowNavigator"),
                                <<>>, "")>>)
         [] action = "curseforge" -> runCurseforge(resolveCurseForgeExecutablePath)
         [] action = "curseforgeManager" ->
              Ran(<<startViaCmd(panelUrl("profile=gaming&page=main&panel=curseforgeManager"),
                                <<>>, "")>>)
         [] action = "performanceOverlay" ->
              Ran(<<startViaCmd(panelUrl("profile=gaming&page=main&panel=performanceOverlay"),
                                <<>>, "")>>)
         [] action = "wowStart" -> runWowStart(Trim(resolveLauncherPath("wow")))
         [] action = "openWorkspace" -> openFolder(safeWorkspaceDir, "Workspace")
         [] OTHER -> RunThrew("Unbekannte Action: " \o action)

\* the command of an app tile before the resolver is asked, and the input
\* runTile gives to resolveProgramPath, "" when it does not ask
appCommand(tile) == splitLaunchTargetInput(resolveTileTarget(tile))

resolverInputFor(command) == IF fileExists(command) THEN "" ELSE command

resolverInputOf(tile) == IF tile.type = "app" THEN resolverInputFor(appCommand(tile)) ELSE ""

\* the app branch of runTile: target is the command, or what the resolver
\* made of it
runApp(name, target, args, cwd) ==
    IF target = "" THEN RunThrew("Programm " \o name \o " fehlt")
    ELSE IF ~fileExists(target)
    THEN RunThrew("Programm " \o name \o " nicht gefunden: " \o target)
    ELSE IF ToLower(extname(target)) \in {".lnk", ".bat", ".cmd", ".com"}
    THEN Ran(<<startViaCmd(target, args, cwd)>>)
    ELSE Ran(<<spawnDetached(target, args, cwd)>>)

appArgs(tile) ==
    LET tileArgs == IF Has(tile, "args") THEN tile.args ELSE <<>>
        kept(resolved) == AtIndices(resolved, {i \in DOMAIN resolved : resolved[i] # ""})
    IN kept([i \in DOMAIN tileArgs |-> resolveTemplate(tileArgs[i])])

runUrl(url) ==
    IF url = "" THEN RunThrew("ungueltige URL") ELSE Ran(<<startViaCmd(url, <<>>, "")>>)

runProtocol(protocol) ==
    IF protocol = "" THEN RunThrew("ungueltiges Protocol")
    ELSE Ran(<<startViaCmd(protocol, <<>>, "")>>)

\* runTile; fromResolver is what resolveProgramPath made of the command of
\* an app tile that is no existing file
runTile(tile, payload, fromResolver) ==
    LET name == IF Filled(tile, "label") THEN tile.label ELSE tile.id
        picked(command) == IF ~fileExists(command) /\ fromResolver # "" THEN fromResolver
                           ELSE command
    IN CASE tile.type = "action" ->
              IF ~Filled(tile, "action") THEN RunThrew("Tile Action fehlt")
              ELSE runNamedAction(tile.action, payload)
         [] tile.type = "app" ->
              runApp(name, Trim(picked(appCommand(tile))), appArgs(tile),
                     IF Filled(tile, "startIn") THEN resolveTemplate(tile.startIn) ELSE "")
         [] tile.type = "folder" -> openFolder(resolveTileTarget(tile), "Ordner " \o name)
         [] tile.type = "url" -> runUrl(normalizeHttpUrl(resolveTileTarget(tile)))
         [] tile.type = "protocol" -> runProtocol(normalizeProtocolTarget(resolveTileTarget(tile)))
         [] OTHER -> RunThrew("Tile Typ nicht unterstuetzt: " \o tile.type)

\* the tile runLegacyAction runs for the action, NoTile when it runs none
legacyTileAt(id) == IF FindTile(config.tiles, id) > 0 THEN config.tiles[FindTile(config.tiles, id)]
                    ELSE NoTile

legacyTile(action) ==
    CASE action = "vscode" -> legacyTileAt("vscode")
      [] action \in {"wowClassic", "wowTBC"} -> legacyTileAt("wowLauncher")
      [] OTHER -> NoTile

\* runLegacyAction; tile is the tile it runs for the action and ranTile what
\* runTile made of it
runLegacyAction(action, payload, tile, ranTile) ==
    CASE action = "vscode" -> IF tile = NoTile THEN RunThrew("vscode tile fehlt") ELSE ranTile
      [] action \in {"wowClassic", "wowTBC"} ->
           IF tile = NoTile THEN RunThrew("wow launcher tile fehlt") ELSE ranTile
      [] action = "openWowAddons" -> openFolder(WowFolders.addons, "WoW Addons")
      [] action = "openWowLogs" -> openFolder(WowFolders.logs, "WoW Logs")
      [] action = "openWowWtf" -> openFolder(WowFolders.wtf, "WoW WTF")
      [] OTHER -> runNamedAction(action, payload)

\* the tile POST /api/run runs for the body, NoTile when it runs none
tileToRun(body) ==
    LET tileId == Trim(StrOr(OptProp(body, "tileId")))
    IN IF tileId # "" THEN legacyTileAt(tileId)
       ELSE legacyTile(Trim(StrOr(OptProp(body, "action"))))

\* POST /api/run: the status, the error and the processes started; tile is
\* the tile the request runs
runOutcome(body, tile, fromResolver) ==
    LET tileId == Trim(StrOr(OptProp(body, "tileId")))
        action == Trim(StrOr(OptProp(body, "action")))
        payload == IF IsObjLike(body) THEN body ELSE Obj(EmptyRec)
        answered(ran) == [status |-> IF ran.error = "" THEN 200 ELSE 500, error |-> ran.error,
                          started |-> ran.started]
        handled(ranTile) ==
            IF tileId # ""
            THEN IF tile = NoTile
                 THEN [status |-> 404, error |-> "tile nicht gefunden", started |-> <<>>]
                 ELSE answered(ranTile)
            ELSE IF action # "" THEN answered(runLegacyAction(action, payload, tile, ranTile))
            ELSE [status |-> 400, error |-> "tileId oder action fehlt", started |-> <<>>]
    IN handled(IF tile = NoTile THEN RunThrew("Tile fehlt")
               ELSE runTile(tile, payload, fromResolver))

(***************************************************************************)
(* Bounds and input pools                                                  *)
(***************************************************************************)
\* longest list of profiles, and of tiles, in an input of mergeWithDefaults
MaxListLen == 2

SeqsUpTo(pool, n) == UNION {[1..k -> pool] : k \in 0..n}

\* the string c repeated n times
RECURSIVE Rep(_, _)
Rep(c, n) == IF n = 0 THEN ""
             ELSE IF n = 1 THEN c
             ELSE Rep(c, n \div 2) \o Rep(c, n - (n \div 2))

\* values randomToken() can return
RandomTokens == {Rep("Ab3!", RANDOM_TOKEN_LEN \div 4), Rep("Zy9#", RANDOM_TOKEN_LEN \div 4)}

RawPage(id, label) == Obj([id |-> S(id), label |-> S(label)])

ProfilePool == {
    Obj([id |-> S("mine"), label |-> S("Mine"), pages |-> Arr(<<RawPage("p1", "P1")>>)]),
    Obj([id |-> S("work"), label |-> S("Work"), pages |-> Arr(<<RawPage("x", "X")>>)]),
    Obj([id |-> S(" fav "), label |-> S("Favs")]),
    Obj([id |-> S(""), label |-> S("NoId"), pages |-> Arr(<<RawPage("q", "Q")>>)]),
    Obj([id |-> S("bad"), label |-> S("Bad"), pages |-> Arr(<<Null>>)]),
    Obj([id |-> N(7), label |-> S("Seven"),
         pages |-> Arr(<<Obj([id |-> S("a")]), RawPage("main", "M"), S("junk")>>)]),
    Null }

RawAction(id, profile, page, label) ==
    [id |-> S(id), profile |-> S(profile), page |-> S(page), label |-> S(label),
     type |-> S("action"), action |-> S("terminal")]

TilePool == {
    Obj(RawAction("c1", "work", "main", "Custom")),
    Obj(RawAction("vscode", "work", "main", "Mine")),
    Obj(RawAction("vs\tcode", "work", "main", "Tabbed")),
    Obj(RawAction("c2", "nowhere", "main", Rep("a", LABEL_MAX_LEN - 1) \o " b")),
    Obj(RawAction("c3", "work", "main", "Flagged") @@ [builtin |-> B(TRUE)]),
    Obj([id |-> S("u1"), profile |-> S("work"), label |-> S("Url"), type |-> S("url"),
         target |-> S("not a url")]),
    Obj([id |-> S("a1"), profile |-> S("work"), label |-> S("App"), type |-> S("app"),
         launcherKey |-> S("vscode"), args |-> Arr(<<S(" -n "), N(0), N(5)>>),
         iconMode |-> S("image"), showIf |-> S("wowRunning")]),
    Null }

TokenPool == {S(Rep("t", TOKEN_MIN_LEN - 1)), S(Rep("t", TOKEN_MIN_LEN)),
              S(Rep("t", TOKEN_MIN_LEN) \o " "), N(1234567890), Null}

RateLimitPool == {Obj([windowMs |-> N(1000), max |-> N(5)]),
                  Obj([windowMs |-> N(1), max |-> N(0)]),
                  Obj([windowMs |-> S("500"), max |-> S("many")]),
                  Arr(<<>>), S("fast")}

CodeExe == "C:\\Program Files\\Microsoft VS Code\\Code.exe"

LaunchersPool == {
    Obj([vscode |-> Obj([path |-> S("D:\\Code.exe"), candidates |-> Arr(<<S("D:\\Code.exe"), N(1)>>)])]),
    Obj([mine |-> Obj([label |-> S(" "), candidates |-> S("ab")]), junk |-> S("x")]),
    Obj([obs |-> Obj([candidates |-> N(5)])]),
    Arr(<<Obj([label |-> S("Zero")])>>),
    S("none") }

\* arguments of mergeWithDefaults: the values that are not objects, and
\* objects that carry one or two of the fields
MergeInputs ==
    {Null, N(5), S("text"), B(TRUE), Arr(<<>>), Obj(EmptyRec)}
    \cup {Obj([profiles |-> Arr(ps)]) : ps \in SeqsUpTo(ProfilePool, MaxListLen)}
    \cup {Obj([tiles |-> Arr(ts)]) : ts \in SeqsUpTo(TilePool, MaxListLen)}
    \cup {Obj([token |-> t, rateLimit |-> r]) : t \in TokenPool, r \in RateLimitPool}
    \cup {Obj([launchers |-> l, profiles |-> S("none")]) : l \in LaunchersPool}

FsChoices == {[files |-> {}, dirs |-> {}, running |-> {}],
              [files |-> {CodeExe, "D:\\Code.exe"}, dirs |-> {"C:\\Windows"}, running |-> {}]}

(***************************************************************************)
(* SpecMerge: mergeWithDefaults applied to an input, and to its own output *)
(***************************************************************************)
InitMerge ==
    /\ mergeIn \in MergeInputs
    /\ mergeOut = NotRun
    /\ mergeOut2 = NotRun
    /\ fsys \in FsChoices
    /\ disableAutodetect \in BOOLEAN
    /\ config = Idle /\ disk = Idle /\ rateState = Idle /\ now = 0
    /\ req = Idle /\ res = Idle /\ rateLog = NoLog
    /\ proc = Idle /\ clientTilesCache = Idle /\ pending = <<>> /\ builds = <<>>
    /\ started = <<>>
    /\ programIndexCache = Idle /\ resolveIn = Idle /\ resolveOut = Idle

MergeOnce ==
    /\ mergeOut = NotRun
    /\ \E rnd \in RandomTokens : mergeOut' = mergeWithDefaults(mergeIn, rnd)
    /\ UNCHANGED <<store, fsys, disableAutodetect, rateState, now, req, res,
                   rateLog, mergeIn, mergeOut2, resolver>>

MergeAgain ==
    /\ mergeOut \notin {NotRun, Thrown}
    /\ mergeOut2 = NotRun
    /\ \E rnd \in RandomTokens : mergeOut2' = mergeWithDefaults(ToRawConfig(mergeOut), rnd)
    /\ UNCHANGED <<store, fsys, disableAutodetect, rateState, now, req, res,
                   rateLog, mergeIn, mergeOut, resolver>>

NextMerge == MergeOnce \/ MergeAgain

SpecMerge == InitMerge /\ [][NextMerge]_vars

(***************************************************************************)
(* Claims about mergeWithDefaults (SpecMerge)                              *)
(***************************************************************************)
BuiltinTileIds == {getDefaultTiles[i].id : i \in DOMAIN getDefaultTiles}

HasAllBuiltinTiles(c) == \A id \in BuiltinTileIds : FindTile(c.tiles, id) > 0

HasAllBuiltinProfiles(c) ==
    \A d \in DOMAIN getDefaultProfiles :
        \E i \in DOMAIN c.profiles : c.profiles[i].id = getDefaultProfiles[d].id


BuiltinPagesInEach(c) ==
    \A i \in DOMAIN c.profiles, d \in DOMAIN getDefaultProfiles :
        c.profiles[i].id = getDefaultProfiles[d].id
        => \A g \in DOMAIN getDefaultProfiles[d].pages :
              HasPage(c.profiles[i], getDefaultProfiles[d].pages[g].id)

\* a page entry of the input that has a non-empty id and label
PageKept(x) == IsObjLike(x) /\ TrimOf(Prop(x, "id")) # "" /\ TrimOf(Prop(x, "label")) # ""

UserProfilesKept(raw, c) ==
    LET input == OptProp(raw, "profiles")
    IN input.k = "arr" =>
        \A i \in DOMAIN input.a :
            LET p == input.a[i]
                pages == IF Prop(p, "pages").k = "arr" THEN Prop(p, "pages").a ELSE <<>>
            IN ProfileKept(p) =>
                \E k \in DOMAIN c.profiles :
                    /\ c.profiles[k].id = TrimOf(Prop(p, "id"))
                    /\ c.profiles[k].label = TrimOf(Prop(p, "label"))
                    /\ \A j \in DOMAIN pages :
                          PageKept(pages[j]) => HasPage(c.profiles[k], TrimOf(Prop(pages[j], "id")))

Merged == mergeOut \notin {NotRun, Thrown}

\* C6: mergeWithDefaults never throws, whatever JSON value it is given.
C6_NeverThrows == mergeOut # Thrown

\* C7: mergeWithDefaults is idempotent: merging its own output again gives a
\* configuration equal to that output, field for field.
C7_Idempotent == mergeOut2 # NotRun => mergeOut2 = mergeOut

\* C8: the output of mergeWithDefaults holds every built-in tile id, every
\* built-in profile id, every built-in page id inside each built-in profile,
\* and every profile and page of the input that has a non-empty id and label.
C8_BuiltinsAndUserEntriesKept ==
    Merged => /\ HasAllBuiltinTiles(mergeOut)
              /\ HasAllBuiltinProfiles(mergeOut)
              /\ BuiltinPagesInEach(mergeOut)
              /\ UserProfilesKept(mergeIn, mergeOut)

(***************************************************************************)
(* The server: start-up and requests                                       *)
(***************************************************************************)
\* how far past max + cost a client's counter is followed
MaxOver == 0
\* how many times the clock advances
MaxTicks == 2
\* how many calls of rateLimit the history holds
MaxLog == 6
\* how many handlers are suspended at a time
MaxPending == 1
\* how many calls of buildClientTiles are suspended at a time
MaxBuilds == 1

ClientIp == "192.168.0.7"

\* the people who use the panel from the address ClientIp
Users == {"ann", "ben"}

\* a request as the application sees it: header is the X-Token header,
\* query the token query parameter, bodyOk whether express.json parsed the
\* body; sender is who sent it, which no field of the request tells
Request(method, path, header, query, bodyOk, body) ==
    [method |-> method, path |-> path, ip |-> ClientIp, header |-> header,
     query |-> query, bodyOk |-> bodyOk, body |-> body, sender |-> "ann"]

\* the same request sent by user
SentBy(user, r) == [r EXCEPT !.sender = user]

\* rate limits: five units in a second, and the smallest limit there is
FiveASecond == Obj([windowMs |-> N(1000), max |-> N(5)])
ThreeASecond == Obj([windowMs |-> N(1000), max |-> N(MIN_MAX)])

GoodToken == Rep("t", TOKEN_MIN_LEN)

\* the environment the server runs in
ServerFs == [files |-> {CodeExe}, dirs |-> {"C:\\Windows"}, running |-> {}]

\* the runs of the writeJsonAtomic in readConfig, which copies nothing
WriteRuns(d) == {[run EXCEPT !.copied = FALSE] : run \in Runs(d)}

\* clientTilesCache before buildClientTiles has filled it
EmptyCache == [filled |-> FALSE, ts |-> 0, wowRunning |-> FALSE, tiles |-> <<>>]

Up == proc.state = "up"

\* the process starts on the files d, in the environment fs; where
\* readConfig throws, the process ends there (proc.state is "aborted") and
\* config is what readConfig had built
BootOn(d, fs) ==
    /\ fsys = fs
    /\ disableAutodetect = TRUE
    /\ \E rnd \in RandomTokens, first \in WriteRuns(d), run \in Runs(d) :
         \E c \in {readConfig(d, rnd)} :
            /\ config = c
            /\ disk = diskAfterBoot(d, c, first, run)
            /\ proc = procAfterBoot(d, first, run)
    /\ clientTilesCache = EmptyCache
    /\ pending = <<>>
    /\ builds = <<>>
    /\ started = <<>>
    /\ rateState = EmptyRec
    /\ now = 0
    /\ req = Idle /\ res = Idle
    /\ mergeIn = Idle /\ mergeOut = Idle /\ mergeOut2 = Idle
    /\ programIndexCache = NoIndex
    /\ resolveIn = Idle /\ resolveOut = Idle

Boot(d) == BootOn(d, ServerFs)

\* the request got as far as requireToken: it reached rateLimit or was
\* answered 401
Logged(g) == g.seen \/ g.res.status = 401

\* the latest answer is a 429 of rateLimit, and exactly Retry-After seconds
\* have passed since, in which the client sent nothing
WaitedOut ==
    /\ res # Idle /\ res.status = 429 /\ res.handler = "rateLimit"
    /\ rateLog.kept /\ rateLog.entries # <<>>
    /\ now = rateLog.entries[Len(rateLog.entries)].t + (1000 * res.retryAfter)

\* the limiter's counter stays within MaxOver of the limit, except for the
\* request of a client that waited out a 429, and the history, where it is
\* kept, within MaxLog entries
Capped(g) ==
    /\ g.seen => (g.entry.n <= RateMax + MaxOver + g.cost \/ WaitedOut)
    /\ (Logged(g) /\ rateLog.kept) => Len(rateLog.entries) < MaxLog

\* time passes: three quarters of a window
TickMs == (RateWindowMs * 3) \div 4

Tick ==
    /\ Up
    /\ now < MaxTicks * TickMs
    /\ now' = now + TickMs
    /\ UNCHANGED <<store, fsys, disableAutodetect, rateState, req, res, rateLog,
                   mergeIn, mergeOut, mergeOut2, resolver>>

\* the 429 of rateLimit is the latest answer, and no time has passed since
Refused == /\ Up
           /\ res # Idle /\ res.status = 429 /\ res.handler = "rateLimit"
           /\ rateLog.kept /\ rateLog.entries # <<>>
           /\ rateLog.entries[Len(rateLog.entries)].t = now

\* the client that was answered 429 sends nothing for as many seconds as
\* the Retry-After header says
RetryWait ==
    /\ Refused
    /\ now' = now + (1000 * res.retryAfter)
    /\ UNCHANGED <<store, fsys, disableAutodetect, rateState, req, res, rateLog,
                   mergeIn, mergeOut, mergeOut2, resolver>>

\* whether this call of rateLimit is one that sweeps, where that makes a
\* difference
SweepChoices ==
    IF \E k \in DOMAIN rateState : rateState[k].t0 < now - (RateWindowMs * 4)
    THEN BOOLEAN ELSE {FALSE}

\* the ids sanitizeCustomTile can generate: Date.now() in base 36 and five
\* digits of Math.random(); two draws may or may not give the same id
GenIds == {"c_k1x_a1b2c", "c_k1y_9z8y7"}

\* the tokens randomToken() can draw, where the draw shows in the result
DrawnTokens(body) ==
    IF \/ Prop(body, "keepCurrentToken") # B(FALSE)
       \/ Prop(body, "config").k # "obj"
       \/ /\ IsStr(Prop(Prop(body, "config"), "token"))
          /\ Len(Prop(Prop(body, "config"), "token").s) >= TOKEN_MIN_LEN
    THEN {CHOOSE t \in RandomTokens : TRUE}
    ELSE RandomTokens

(***************************************************************************)
(* Requests                                                                *)
(***************************************************************************)
\* what rateLog holds after the request: one entry for each request that
\* reaches rateLimit, and one (denied) for each that requireToken answers
\* 401, in the specifications that keep the history
rateLogAfter(r, g) ==
    IF ~rateLog.kept \/ ~Logged(g) THEN rateLog
    ELSE [rateLog EXCEPT !.entries =
            Append(@, [key |-> IF g.seen THEN g.key ELSE rateClientKey(r), t |-> now,
                       path |-> ToLower(r.path), cost |-> g.cost, admitted |-> g.pass,
                       denied |-> ~g.seen])]

\* what every route does with a request before its handler runs; g is what
\* the middleware made of it
Through(r, g) ==
    /\ Up
    /\ req' = r
    /\ rateState' = g.rate
    /\ rateLog' = rateLogAfter(r, g)
    /\ UNCHANGED <<now, fsys, disableAutodetect, mergeIn, mergeOut, mergeOut2, resolver>>

\* the handler's answer to a request that did not change the configuration
Answer(status, error, handler) ==
    /\ res' = Response(status, error, handler)
    /\ UNCHANGED store

\* persistConfigSafe after the handler changed the configuration to c, and
\* the answer: ok, or 500 when the write failed
Persisted(c, ok) ==
    \E run \in Runs(disk) :
        /\ config' = c
        /\ disk' = diskAfterPersist(disk, c, run)
        /\ proc' = [proc EXCEPT !.state = IF run.stopped THEN "stopped" ELSE @,
                                !.persist = run]
        /\ clientTilesCache' = IF Completed(run) THEN EmptyCache ELSE clientTilesCache
        /\ res' = IF run.stopped THEN NoResponse
                  ELSE IF Completed(run) THEN ok
                  ELSE Response(500, "config write failed", ok.handler)

PersistAndAnswer(c, ok) ==
    Persisted(c, ok) /\ UNCHANGED <<pending, builds, started, programIndexCache>>

\* the same after invalidateProgramIndexCache()
InvalidateAndPersist(c, ok) ==
    Persisted(c, ok) /\ programIndexCache' = NoIndex /\ UNCHANGED <<pending, builds, started>>

\* the handler assigned a new array to config.tiles, or a new object to
\* config: a loop of buildClientTiles that is under way goes on over the
\* array it began with
Detached ==
    [i \in DOMAIN builds |->
        IF builds[i].phase = "icon" /\ builds[i].live
        THEN [builds[i] EXCEPT !.live = FALSE, !.tiles = config.tiles]
        ELSE builds[i]]

\* the middleware runs in front of the handler: g is what it made of the
\* request
Admitted(r, g) == Capped(g) /\ Through(r, g)

Upsert(r) ==
    /\ RouteIs(r, "POST", "/api/tiles/upsert")
    /\ \E sweep \in SweepChoices, gen \in GenIds : \E g \in {Gate(r, sweep)} :
          /\ Admitted(r, g)
          /\ IF ~g.pass THEN res' = g.res /\ UNCHANGED store
             ELSE \E o \in {upsertOutcome(r.body, gen)} :
                    IF o.status # 200 THEN Answer(o.status, o.error, "upsert")
                    ELSE PersistAndAnswer([config EXCEPT !.tiles = o.tiles],
                                          [Response(200, "", "upsert") EXCEPT !.tile = o.tile])

Delete(r) ==
    /\ RouteIs(r, "POST", "/api/tiles/delete")
    /\ \E sweep \in SweepChoices : \E g \in {Gate(r, sweep)} :
          /\ Admitted(r, g)
          /\ IF ~g.pass THEN res' = g.res /\ UNCHANGED store
             ELSE \E o \in {deleteOutcome(r.body)} :
                    IF o.status # 200 THEN Answer(o.status, o.error, "delete")
                    ELSE /\ Persisted([config EXCEPT !.tiles = o.tiles],
                                      Response(200, "", "delete"))
                         /\ builds' = Detached
                         /\ UNCHANGED <<pending, started, programIndexCache>>

Import(r) ==
    /\ RouteIs(r, "POST", "/api/settings/import")
    /\ \E sweep \in SweepChoices, rnd \in DrawnTokens(r.body) : \E g \in {Gate(r, sweep)} :
          /\ Admitted(r, g)
          /\ IF ~g.pass THEN res' = g.res /\ UNCHANGED store
             ELSE \E o \in {importOutcome(r.body, rnd)} :
                    IF o.status # 200 THEN Answer(o.status, o.error, "import")
                    ELSE /\ Persisted(o.config, Response(200, "", "import"))
                         /\ programIndexCache' = NoIndex
                         /\ builds' = Detached
                         /\ UNCHANGED <<pending, started>>

SettingsLauncher(r) ==
    /\ RouteIs(r, "POST", "/api/settings/launcher")
    /\ \E sweep \in SweepChoices : \E g \in {Gate(r, sweep)} :
          /\ Admitted(r, g)
          /\ IF ~g.pass THEN res' = g.res /\ UNCHANGED store
             ELSE \E o \in {launcherOutcome(r.body)} :
                    IF o.status # 200 THEN Answer(o.status, o.error, "launcher")
                    ELSE InvalidateAndPersist([config EXCEPT !.launchers = o.launchers],
                                              Response(200, "", "launcher"))

GetTile(r) ==
    /\ IsTileGet(r)
    /\ \E sweep \in SweepChoices : \E g \in {Gate(r, sweep)} :
          /\ Admitted(r, g)
          /\ UNCHANGED store
          /\ LET id == safeTrimStr(tileParam(r), CUSTOM_ID_MAX_LEN)
                 at == FindTile(config.tiles, id)
             IN IF ~g.pass THEN res' = g.res
                ELSE IF id = "" THEN res' = Response(400, "id fehlt", "tile")
                ELSE IF at = 0 THEN res' = Response(404, "tile nicht gefunden", "tile")
                ELSE res' = [Response(200, "", "tile") EXCEPT !.tile = tileView(config.tiles[at])]

\* POST /api/settings/ai, as far as it runs without waiting: to its answer,
\* or to the await of verifyOpenAiApiKey, where the handler is suspended
\* with the model already set
SettingsAi(r) ==
    /\ RouteIs(r, "POST", "/api/settings/ai")
    /\ \E sweep \in SweepChoices : \E g \in {Gate(r, sweep)} :
          /\ Admitted(r, g)
          /\ IF ~g.pass THEN res' = g.res /\ UNCHANGED store
             ELSE \E o \in {aiOutcome(r.body)} :
                    IF o.next = "persist"
                    THEN PersistAndAnswer(o.config, Response(200, "", "settings/ai"))
                    ELSE /\ config' = o.config
                         /\ res' = Response(o.status, o.error, "settings/ai")
                         /\ o.next = "await" => Len(pending) < MaxPending
                         /\ pending' = IF o.next = "await"
                                       THEN Append(pending, [req |-> r, key |-> o.key,
                                                             edited |-> o.edited])
                                       ELSE pending
                         /\ UNCHANGED <<disk, proc, clientTilesCache, builds, started,
                                        programIndexCache>>

\* verifyOpenAiApiKey returns or throws, and a suspended handler of POST
\* /api/settings/ai runs on: it sets the key and persists, or answers 400
SettingsAiResume ==
    /\ Up
    /\ \E i \in DOMAIN pending, verified \in BOOLEAN :
          /\ req' = pending[i].req
          /\ pending' = AtIndices(pending, DOMAIN pending \ {i})
          /\ IF verified
             THEN Persisted([config EXCEPT !.ai.openAiApiKey = pending[i].key],
                            Response(200, "", "settings/ai"))
             ELSE /\ res' = Response(400, "OpenAI Verifizierung fehlgeschlagen", "settings/ai")
                  /\ UNCHANGED <<config, disk, proc, clientTilesCache>>
    /\ UNCHANGED <<rateState, rateLog, now, fsys, disableAutodetect, mergeIn, mergeOut, mergeOut2,
                   resolver, programIndexCache, builds, started>>

\* GET /api/bootstrap when no other handler runs while buildClientTiles
\* waits.  The icons extractIconDataUrl would add are left out (iconData
\* stays "").
Bootstrap(r) ==
    /\ RouteIs(r, "GET", "/api/bootstrap")
    /\ \E sweep \in SweepChoices, wowRunning \in {isProcessRunning(WOW_PROCESS_NAME)} :
       \E g \in {Gate(r, sweep)} :
          /\ Admitted(r, g)
          /\ UNCHANGED <<config, disk, proc, pending, builds, started, programIndexCache>>
          /\ IF ~g.pass THEN res' = g.res /\ UNCHANGED clientTilesCache
             ELSE \E payload \in {buildClientTiles(wowRunning)} :
                    /\ clientTilesCache' = payload
                    /\ res' = [Response(200, "", "bootstrap") EXCEPT
                                 !.tiles = payload.tiles, !.wowRunning = wowRunning]

\* GET /api/bootstrap up to the first await of buildClientTiles, the one of
\* isProcessRunning: the handler is suspended there
BootstrapBegin(r) ==
    /\ RouteIs(r, "GET", "/api/bootstrap")
    /\ \E sweep \in SweepChoices : \E g \in {Gate(r, sweep)} :
          /\ Admitted(r, g)
          /\ UNCHANGED <<config, disk, proc, clientTilesCache, pending, started,
                         programIndexCache>>
          /\ IF ~g.pass THEN res' = g.res /\ UNCHANGED builds
             ELSE /\ Len(builds) < MaxBuilds
                  /\ builds' = Append(builds, [NoBuild EXCEPT !.req = r])
                  /\ res' = Response(0, "", "bootstrap")

\* an await of a suspended buildClientTiles returns and the call runs on: to
\* the kept payload, to the next tile whose icon it asks for, or to its end,
\* where it keeps the list under the time it took when it began
BuildResume ==
    /\ Up
    /\ \E i \in DOMAIN builds : \E b \in {builds[i]} :
       \E wowRunning \in {IF b.phase = "process" THEN isProcessRunning(WOW_PROCESS_NAME)
                          ELSE b.wowRunning},
          ts \in {IF b.phase = "process" THEN now ELSE b.ts},
          live \in {b.phase = "process" \/ b.live} :
       \E loop \in {IF b.phase = "process" THEN tilesLoop(config.tiles, 1, <<>>, wowRunning)
                     ELSE tilesLoop(IF b.live THEN config.tiles ELSE b.tiles, b.at + 1,
                                    Append(b.list, b.out), wowRunning)} :
          /\ req' = b.req
          /\ IF /\ b.phase = "process"
                /\ clientTilesCache.filled
                /\ clientTilesCache.wowRunning = wowRunning
                /\ now - clientTilesCache.ts < CLIENT_TILES_CACHE_MS
             THEN /\ builds' = AtIndices(builds, DOMAIN builds \ {i})
                  /\ res' = [Response(200, "", "bootstrap") EXCEPT
                               !.tiles = clientTilesCache.tiles, !.wowRunning = wowRunning]
                  /\ UNCHANGED clientTilesCache
             ELSE IF loop.done
             THEN /\ builds' = AtIndices(builds, DOMAIN builds \ {i})
                  /\ clientTilesCache' = [filled |-> TRUE, ts |-> ts, wowRunning |-> wowRunning,
                                          tiles |-> loop.list]
                  /\ res' = [Response(200, "", "bootstrap") EXCEPT
                               !.tiles = loop.list, !.wowRunning = wowRunning]
             ELSE /\ builds' = [builds EXCEPT ![i] =
                                  [req |-> b.req, phase |-> "icon", wowRunning |-> wowRunning,
                                   ts |-> ts, live |-> live,
                                   tiles |-> IF live THEN <<>> ELSE b.tiles,
                                   at |-> loop.at, list |-> loop.list, out |-> loop.out]]
                  /\ res' = Response(0, "", "bootstrap")
                  /\ UNCHANGED clientTilesCache
    /\ UNCHANGED <<config, disk, proc, pending, started, programIndexCache, rateState,
                   rateLog, now, fsys, disableAutodetect, mergeIn, mergeOut, mergeOut2,
                   resolver>>

\* POST /api/run.  An app tile whose command is no existing file goes to
\* the program resolver, which may build the program index.
PostRun(r) ==
    /\ RouteIs(r, "POST", "/api/run")
    /\ \E sweep \in SweepChoices : \E g \in {Gate(r, sweep)} :
          /\ Admitted(r, g)
          /\ UNCHANGED <<config, disk, proc, clientTilesCache, pending, builds>>
          /\ IF ~g.pass THEN res' = g.res /\ UNCHANGED <<started, programIndexCache>>
             ELSE \E tile \in {tileToRun(r.body)} :
                  \E asked \in {IF tile = NoTile THEN "" ELSE resolverInputOf(tile)} :
                  \E cache \in {IF resolveStage(asked) = "index" THEN buildProgramIndex
                                ELSE programIndexCache} :
                  \E fromResolver \in {resolveProgramPath(cache.entries, asked)} :
                  \E o \in {runOutcome(r.body, tile, fromResolver)} :
                     /\ programIndexCache' = cache
                     /\ started' = o.started
                     /\ res' = Response(o.status, o.error, "run")

\* the routes whose handlers read and report: the status is the handler's
\* to choose, the configuration stays as it is
ReadStatuses == {200, 500}

ReadRoute(r) ==
    /\ \E rt \in ReadRoutes : RouteIs(r, rt[1], rt[2])
    /\ \E sweep \in SweepChoices, status \in ReadStatuses : \E g \in {Gate(r, sweep)} :
          /\ Admitted(r, g)
          /\ UNCHANGED store
          /\ IF ~g.pass THEN res' = g.res
             ELSE res' = Response(IF RouteIs(r, "GET", "/api/health") THEN 200 ELSE status,
                                  "", ToLower(r.path))

\* a path under /api no route matches: the catch-all answers, after
\* express.json and before any token check
NotFound(r) ==
    /\ Up
    /\ StartsWith(ToLower(r.path), "/api/")
    /\ ~Registered(r)
    /\ req' = r
    /\ res' = IF BodyFails(r) THEN Response(400, "ungueltiger JSON-Body", "error")
              ELSE Response(404, "api route not found", "notFound")
    /\ UNCHANGED <<store, rateState, rateLog, now, fsys, disableAutodetect,
                   mergeIn, mergeOut, mergeOut2, resolver>>

(***************************************************************************)
(* Spec: the tile and settings routes                                      *)
(***************************************************************************)
Tile(fields) == Obj([tile |-> Obj(fields)])

UpsertBodies ==
    {Tile(RawAction("vscode", "work", "main", "Mine")),
     Tile(RawAction("vs\tcode", "work", "main", "Tabbed")),
     Tile(RawAction("c1", "work", "main", "Custom")),
     Tile(RawAction("c1", "nowhere", "main", "Lost")),
     Tile([profile |-> S("work"), label |-> S("Docs"), type |-> S("url"),
           target |-> S("https://example.com/docs")]),
     Obj(EmptyRec)}

DeleteBodies == {Obj([id |-> S("vscode")]), Obj([id |-> S("c1")])}

ImportBodies ==
    {Obj([config |-> Obj([rateLimit |-> ThreeASecond, token |-> S(Rep("n", TOKEN_MIN_LEN)),
                          tiles |-> Arr(<<Obj(RawAction("vscode", "work", "main", "Mine"))>>)])]),
     Obj([config |-> Arr(<<>>)])}

LauncherBodies ==
    {Obj([id |-> S("vscode"), path |-> S(" %SystemRoot%\\code.exe ")]),
     Obj([id |-> S("constructor"), path |-> S("x")]),
     Obj([id |-> S("nope")])}

\* requests that carry the configured token in the header, one that carries
\* none, one whose body does not parse
Authed(method, path, body) == Request(method, path, S(config.token), Undef, "ok", body)

Requests ==
    {Authed("POST", "/api/tiles/upsert", b) : b \in UpsertBodies}
    \cup {Authed("POST", "/api/tiles/delete", b) : b \in DeleteBodies}
    \cup {Authed("POST", "/api/settings/import", b) : b \in ImportBodies}
    \cup {Authed("POST", "/api/settings/launcher", b) : b \in LauncherBodies}
    \cup {Authed("GET", "/api/tiles/vscode", Undef), Authed("GET", "/api/health", Undef), Authed("GET", "/api/bootstrap", Undef),
          Authed("GET", "/api/does-not-exist", Undef),
          Request("POST", "/api/tiles/delete", Undef, Undef, "ok", Obj([id |-> S("c1")])),
          Request("POST", "/api/tiles/upsert", S(config.token), Undef, "malformed", Undef)}

Files(cfg, bak, writable) ==
    [cfg |-> cfg, bak |-> bak, tmp |-> Absent, writable |-> writable, steady |-> TRUE]

BootFiles ==
    {Files(Json(Obj([token |-> S(GoodToken), rateLimit |-> ThreeASecond])), Absent, TRUE),
     Files(Json(Obj([token |-> S(GoodToken), rateLimit |-> ThreeASecond])), Absent, FALSE),
     Files(Garbage,
           Json(Obj([token |-> S(GoodToken), rateLimit |-> ThreeASecond,
                     tiles |-> Arr(<<Obj(RawAction("c1", "work", "main", "Custom"))>>)])),
           TRUE)}

Init == (\E d \in BootFiles : Boot(d)) /\ rateLog = NoLog

\* a request arrives and is answered
Next ==
    \/ \E r \in Requests : Upsert(r)
    \/ \E r \in Requests : Delete(r)
    \/ \E r \in Requests : Import(r)
    \/ \E r \in Requests : SettingsLauncher(r)
    \/ \E r \in Requests : GetTile(r)
    \/ \E r \in Requests : Bootstrap(r)
    \/ \E r \in Requests : ReadRoute(r)
    \/ \E r \in Requests : NotFound(r)

Spec == Init /\ [][Next]_vars

(***************************************************************************)
(* SpecAuth: requests with and without tokens, against configured tokens   *)
(* of several shapes                                                       *)
(***************************************************************************)
\* tokens a config file can hold: too short, plain, with white space or a
\* control character at the ends, longer than requireToken reads
ConfigTokens ==
    {Rep("t", TOKEN_MIN_LEN - 1), GoodToken, GoodToken \o " ", "\t" \o GoodToken,
     Rep("t", TOKEN_READ_MAX_LEN + 1)}

AuthBootFiles ==
    {Files(Json(Obj([token |-> S(t), rateLimit |-> ThreeASecond])), Absent, TRUE) :
        t \in ConfigTokens}

\* what a client presents: nothing, the configured token, and the
\* configured token with one character added, removed or changed
Presented ==
    {Undef, S(config.token), S(config.token \o " "),
     S(SubSeq(config.token, 1, Len(config.token) - 1)),
     S("X" \o SubSeq(config.token, 2, Len(config.token)))}

\* one request to each route, with a body its handler turns down
AuthRoutes ==
    {<<"GET", "/api/health", Undef>>,
     <<"GET", "/api/tiles/vscode", Undef>>,
     <<"POST", "/api/tiles/upsert", Obj(EmptyRec)>>,
     <<"POST", "/api/tiles/delete", Obj([id |-> S("nothing")])>>,
     <<"POST", "/api/settings/import", Obj([config |-> Arr(<<>>)])>>,
     <<"POST", "/api/settings/launcher", Obj([id |-> S("nope")])>>,
     <<"GET", "/api/does-not-exist", Undef>>}

AuthRequests ==
    {Request(rt[1], rt[2], t, Undef, "ok", rt[3]) : rt \in AuthRoutes, t \in Presented}
    \cup {Request(rt[1], rt[2], Undef, t, "ok", rt[3]) : rt \in AuthRoutes, t \in Presented}
    \cup {Request("POST", "/api/tiles/upsert", t, Undef, "malformed", Undef) :
            t \in {Undef, S(config.token)}}

InitAuth == (\E d \in AuthBootFiles : Boot(d)) /\ rateLog = NoLog

NextAuth ==
    \/ \E r \in AuthRequests : Upsert(r)
    \/ \E r \in AuthRequests : Delete(r)
    \/ \E r \in AuthRequests : Import(r)
    \/ \E r \in AuthRequests : SettingsLauncher(r)
    \/ \E r \in AuthRequests : GetTile(r)
    \/ \E r \in AuthRequests : ReadRoute(r)
    \/ \E r \in AuthRequests : NotFound(r)

SpecAuth == InitAuth /\ [][NextAuth]_vars

(***************************************************************************)
(* SpecRate: one client, the clock, and the limiter's history              *)
(***************************************************************************)
RateBootFiles == {Files(Json(Obj([token |-> S(GoodToken), rateLimit |-> FiveASecond])),
                        Absent, TRUE)}

RateRequests ==
    {Authed("GET", "/api/health", Undef), Authed("GET", "/api/system/metrics", Undef),
     Authed("POST", "/api/wow/assistant", Obj(EmptyRec))}

InitRate == (\E d \in RateBootFiles : Boot(d)) /\ rateLog = [kept |-> TRUE, entries |-> <<>>]

NextRate == Tick \/ \E r \in RateRequests : ReadRoute(r)

SpecRate == InitRate /\ [][NextRate]_vars

(***************************************************************************)
(* SpecRetry: one client that waits as long as a 429 tells it to           *)
(***************************************************************************)
NextRetry == Tick \/ RetryWait \/ \E r \in RateRequests : ReadRoute(r)

SpecRetry == InitRate /\ [][NextRetry]_vars

(***************************************************************************)
(* SpecDenied: one address that sends requests with the token, without a   *)
(* token and with a wrong one                                              *)
(***************************************************************************)
DeniedBootFiles == {Files(Json(Obj([token |-> S(GoodToken), rateLimit |-> ThreeASecond])),
                          Absent, TRUE)}

DeniedRequests ==
    {Request("GET", "/api/health", t, Undef, "ok", Undef) :
        t \in {Undef, S(config.token), S("X" \o SubSeq(config.token, 2, Len(config.token)))}}

InitDenied == (\E d \in DeniedBootFiles : Boot(d)) /\ rateLog = [kept |-> TRUE, entries |-> <<>>]

NextDenied == Tick \/ \E r \in DeniedRequests : ReadRoute(r)

SpecDenied == InitDenied /\ [][NextDenied]_vars

(***************************************************************************)
(* SpecShared: two users of the panel behind one address                   *)
(***************************************************************************)
SharedRequests ==
    {SentBy(u, Authed("GET", p, Undef)) : u \in Users, p \in {"/api/health", "/api/system/metrics"}}

NextShared == Tick \/ \E r \in SharedRequests : ReadRoute(r)

SpecShared == InitRate /\ [][NextShared]_vars

(***************************************************************************)
(* SpecWindow: the limiter under the smallest permitted setting and under  *)
(* a window of several seconds                                             *)
(***************************************************************************)
MinLimit == Obj([windowMs |-> N(MIN_WINDOW_MS), max |-> N(MIN_MAX)])
SlowLimit == Obj([windowMs |-> N(2500), max |-> N(4)])

WindowBootFiles ==
    {Files(Json(Obj([token |-> S(GoodToken), rateLimit |-> rl])), Absent, TRUE) :
        rl \in {MinLimit, SlowLimit}}

InitWindow == (\E d \in WindowBootFiles : Boot(d)) /\ rateLog = [kept |-> TRUE, entries |-> <<>>]

NextWindow == Tick \/ \E r \in RateRequests : ReadRoute(r)

SpecWindow == InitWindow /\ [][NextWindow]_vars

(***************************************************************************)
(* SpecStore: the configuration in memory and on a disk that may fail at   *)
(* any point, with handlers that wait                                      *)
(***************************************************************************)
Unsteady(files) == [files EXCEPT !.steady = FALSE]

StoreBootFiles ==
    LET stored == Json(Obj([token |-> S(GoodToken), rateLimit |-> FiveASecond]))
    IN {Unsteady(Files(stored, Absent, TRUE))}

AiBodies ==
    {Obj([model |-> S("gpt-4o"), openAiApiKey |-> S(Rep("k", AI_KEY_MIN_LEN))]),
     Obj([model |-> S("gpt-4o"), openAiApiKey |-> S("short")])}

StoreRequests ==
    {Authed("POST", "/api/tiles/upsert", Tile(RawAction("c1", "work", "main", "Custom"))),
     Authed("POST", "/api/tiles/delete", Obj([id |-> S("c1")])),
     Authed("GET", "/api/tiles/c1", Undef),
     Authed("GET", "/api/bootstrap", Undef)}
    \cup {Authed("POST", "/api/settings/ai", b) : b \in AiBodies}

InitStore == (\E d \in StoreBootFiles : Boot(d)) /\ rateLog = NoLog

NextStore ==
    \/ SettingsAiResume
    \/ \E r \in StoreRequests : Upsert(r)
    \/ \E r \in StoreRequests : Delete(r)
    \/ \E r \in StoreRequests : GetTile(r)
    \/ \E r \in StoreRequests : Bootstrap(r)
    \/ \E r \in StoreRequests : SettingsAi(r)

SpecStore == InitStore /\ [][NextStore]_vars

(***************************************************************************)
(* SpecBoot: start-up on every combination of config file, backup and disk *)
(***************************************************************************)
FileStates ==
    {Absent, Garbage, Json(Arr(<<>>)),
     Json(Obj([token |-> S(GoodToken), rateLimit |-> FiveASecond]))}

BackupStates ==
    {Absent, Garbage, Json(Null),
     Json(Obj([token |-> S(Rep("b", TOKEN_MIN_LEN)), rateLimit |-> ThreeASecond]))}

AllBootFiles ==
    {Files(cfg, bak, writable) : cfg \in FileStates, bak \in BackupStates, writable \in BOOLEAN}
    \cup {Unsteady(Files(cfg, bak, TRUE)) : cfg \in FileStates, bak \in BackupStates}

InitBoot == (\E d \in AllBootFiles : Boot(d)) /\ rateLog = NoLog

\* the process, where it runs, answers its first requests
NextBoot == \E r \in {Authed("GET", "/api/health", Undef)} : ReadRoute(r)

SpecBoot == InitBoot /\ [][NextBoot]_vars

(***************************************************************************)
(* SpecResolve: resolveProgramPath applied to names and paths              *)
(***************************************************************************)
StartMenuDir == "C:\\ProgramData\\Microsoft\\Windows\\Start Menu\\Programs"
ToolsCodeExe == "D:\\Tools\\Code.exe"

\* files that may be installed on the machine
ProgramFilesPool ==
    {ToolsCodeExe, CodeExe,
     StartMenuDir \o "\\Code.lnk",
     StartMenuDir \o "\\Dev\\Code.lnk",
     "C:\\Program Files\\Paint\\paint.exe",
     "C:\\Windows\\notepad.exe"}

ResolveFs ==
    {[files |-> files,
      dirs |-> {"C:\\Windows", "C:\\Program Files", StartMenuDir},
      running |-> {}] : files \in SUBSET ProgramFilesPool}

\* config files: one that adds a launcher with a path, one that adds none
ResolveBootFiles ==
    {Files(Json(Obj([token |-> S(GoodToken),
                     launchers |-> Obj([code |-> Obj([label |-> S("Code"),
                                                      path |-> S(ToolsCodeExe)])])])),
           Absent, TRUE),
     Files(Json(Obj([token |-> S(GoodToken)])), Absent, TRUE)}

ResolveInputs ==
    {"code", "cod", "Code.exe", "vs code", "\"code\"", "paint", "notepad", "zzz", "",
     ToolsCodeExe}

InitResolve == (\E d \in ResolveBootFiles, fs \in ResolveFs : BootOn(d, fs)) /\ rateLog = NoLog

\* resolveProgramPath(input): the index is built, or taken from the cache,
\* only when the input is neither a launchable file nor a command on PATH
Resolve(input) ==
    /\ Up
    /\ resolveIn' = S(input)
    /\ \E stage \in {resolveStage(input)} :
       \E cache \in {IF stage = "index" THEN buildProgramIndex ELSE programIndexCache} :
          /\ programIndexCache' = cache
          /\ resolveOut' = S(resolveProgramPath(cache.entries, input))
    /\ UNCHANGED <<config, disk, proc, clientTilesCache, pending, builds, started, fsys,
                   disableAutodetect, rateState, now, req, res, rateLog, mergeIn, mergeOut,
                   mergeOut2>>

NextResolve == \E input \in ResolveInputs : Resolve(input)

SpecResolve == InitResolve /\ [][NextResolve]_vars

(***************************************************************************)
(* SpecTiles: tiles from the config file, from imports and from upserts    *)
(* that name profiles, pages and launchers                                 *)
(***************************************************************************)
RawApp(id, launcherKey) ==
    [id |-> S(id), profile |-> S("work"), page |-> S("main"), label |-> S("App"),
     type |-> S("app"), launcherKey |-> S(launcherKey)]

\* two tiles of one id, as a config file or an import may hold them
TwiceC1 == Arr(<<Obj(RawAction("c1", "work", "main", "First")),
                 Obj(RawAction("c1", "work", "dev", "Second"))>>)

TileBootFiles ==
    {Files(Json(Obj([token |-> S(GoodToken), rateLimit |-> ThreeASecond, tiles |-> TwiceC1])),
           Absent, TRUE),
     Files(Json(Obj([token |-> S(GoodToken), rateLimit |-> ThreeASecond])), Absent, TRUE)}

TileRequests ==
    {Authed("POST", "/api/tiles/upsert", Tile(fields)) :
        fields \in {RawAction("c1", "work", "main", "Custom"),
                    RawAction("c1", "nowhere", "main", "Lost"),
                    RawAction("c2", "work", "nopage", "Astray"),
                    RawAction(" c2\t", "work", "dev", "Spaced"),
                    RawApp("a1", "vscode"),
                    RawApp("a2", "nolauncher"),
                    RawApp("a3", "constructor"),
                    [profile |-> S("work"), label |-> S("Unnamed"), type |-> S("action"),
                     action |-> S("terminal")]}}
    \cup {Authed("POST", "/api/tiles/delete", Obj([id |-> S("c1")])),
          Authed("POST", "/api/settings/import",
                 Obj([config |-> Obj([rateLimit |-> ThreeASecond, tiles |-> TwiceC1])]))}

InitTiles == (\E d \in TileBootFiles : Boot(d)) /\ rateLog = NoLog

NextTiles ==
    \/ \E r \in TileRequests : Upsert(r)
    \/ \E r \in TileRequests : Delete(r)
    \/ \E r \in TileRequests : Import(r)

SpecTiles == InitTiles /\ [][NextTiles]_vars

(***************************************************************************)
(* SpecTemplates: folder and app tiles with and without {{...}} in their   *)
(* target and startIn                                                      *)
(***************************************************************************)
RawFolder(id, target) ==
    [id |-> S(id), profile |-> S("work"), page |-> S("main"), label |-> S("Dir"),
     type |-> S("folder"), target |-> S(target)]

TemplateBootFiles ==
    {Files(Json(Obj([token |-> S(GoodToken), rateLimit |-> FiveASecond])), Absent, TRUE)}

TemplateRequests ==
    {Authed("POST", "/api/tiles/upsert", Tile(fields)) :
        fields \in {RawFolder("f1", "{{workspaceDir}}"),
                    RawFolder("f1", "C:\\Windows"),
                    RawFolder("f2", "C:\\Nowhere"),
                    RawApp("a1", "vscode") @@ [startIn |-> S("{{workspaceDir}}")],
                    RawApp("a1", "vscode") @@ [startIn |-> S("C:\\Windows")],
                    RawApp("a1", "vscode") @@ [target |-> S("{{launchers.vscode}}")]}}
    \cup {Authed("POST", "/api/tiles/delete", Obj([id |-> S(id)])) : id \in {"f1", "a1"}}

InitTemplates == (\E d \in TemplateBootFiles : Boot(d)) /\ rateLog = NoLog

NextTemplates ==
    \/ \E r \in TemplateRequests : Upsert(r)
    \/ \E r \in TemplateRequests : Delete(r)

SpecTemplates == InitTemplates /\ [][NextTemplates]_vars

(***************************************************************************)
(* SpecBuild: tile lists built while other handlers run                    *)
(***************************************************************************)
BuildBootFiles ==
    {Files(Json(Obj([token |-> S(GoodToken), rateLimit |-> FiveASecond,
                     tiles |-> Arr(<<Obj(RawAction("c1", "work", "main", "Custom"))>>)])),
           Absent, TRUE)}

BuildRequests ==
    {Authed("POST", "/api/tiles/upsert", Tile(RawAction("c1", "work", "dev", "Moved"))),
     Authed("POST", "/api/tiles/delete", Obj([id |-> S("c1")])),
     Authed("GET", "/api/bootstrap", Undef)}

InitBuild == (\E d \in BuildBootFiles : Boot(d)) /\ rateLog = NoLog

NextBuild ==
    \/ Tick
    \/ BuildResume
    \/ \E r \in BuildRequests : BootstrapBegin(r)
    \/ \E r \in BuildRequests : Bootstrap(r)
    \/ \E r \in BuildRequests : Upsert(r)
    \/ \E r \in BuildRequests : Delete(r)

SpecBuild == InitBuild /\ [][NextBuild]_vars

(***************************************************************************)
(* SpecRun: action tiles are stored and tiles and actions are run          *)
(***************************************************************************)
RunFs == [ServerFs EXCEPT !.dirs = @ \cup {WorkspaceDir}]

RunBootFiles ==
    {Files(Json(Obj([token |-> S(GoodToken), rateLimit |-> ThreeASecond])), Absent, TRUE)}

\* named actions of both kinds: with a branch in runNamedAction, and with a
\* branch in runLegacyAction only
RunActions == {"terminal", "wowStart", "openWorkspace", "vscode", "openWowLogs"}

\* an action tile t1 for each of them
ActionTiles ==
    {Tile([id |-> S("t1"), profile |-> S("work"), page |-> S("main"), label |-> S("Act"),
           type |-> S("action"), action |-> S(name)]) : name \in RunActions}

RunBodies ==
    {Obj([tileId |-> S("t1")]), Obj([tileId |-> S("vscode")]), Obj([tileId |-> S("nope")]),
     Obj([action |-> S("openWowLogs")]), Obj([action |-> S("nope")]), Obj(EmptyRec)}

RunRequests ==
    {Authed("POST", "/api/tiles/upsert", b) : b \in ActionTiles}
    \cup {Authed("POST", "/api/run", b) : b \in RunBodies}

InitRun == (\E d \in RunBootFiles : BootOn(d, RunFs)) /\ rateLog = NoLog

NextRun ==
    \/ \E r \in RunRequests : Upsert(r)
    \/ \E r \in RunRequests : PostRun(r)

SpecRun == InitRun /\ [][NextRun]_vars

(***************************************************************************)
(* Claims about the tile routes, checked under Spec                        *)
(***************************************************************************)
\* the request is a POST /api/tiles/upsert
IsUpsert(r) == r # Idle /\ RouteIs(r, "POST", "/api/tiles/upsert")

\* every tile that is built-in in before is in after, field for field
BuiltinsKept(before, after) ==
    \A i \in DOMAIN before :
        before[i].builtin => \E j \in DOMAIN after : after[j] = before[i]

\* the id the upsert request carries is the id of a stored built-in tile
AddressesBuiltin(r) ==
    LET id == Trim(StrOr(Prop(OptProp(r.body, "tile"), "id")))
    IN \E i \in DOMAIN config.tiles : config.tiles[i].builtin /\ config.tiles[i].id = id

\* C1: no POST /api/tiles/upsert changes a built-in tile: whatever id the
\* request carries, every tile that was built-in before the request is stored
\* unchanged after it, and an upsert that reaches the handler with the id of
\* a built-in tile is answered 400.
C1_UpsertKeepsBuiltins ==
    [][IsUpsert(req') =>
          /\ BuiltinsKept(config.tiles, config'.tiles)
          /\ (res'.handler = "upsert" /\ AddressesBuiltin(req')) => res'.status = 400]_vars

\* C2: in every reachable state, for every built-in tile id t, the delete
\* handler answers {id: t} with 400 and t is still among the tiles afterwards.
C2_BuiltinDeleteRefused ==
    \A t \in BuiltinTileIds :
        LET o == deleteOutcome(Obj([id |-> S(t)]))
        IN o.status = 400 /\ FindTile(o.tiles, t) > 0

(***************************************************************************)
(* Claims about the token check, checked under SpecAuth                    *)
(***************************************************************************)
\* the request is to a path under /api
UnderApi(r) == r # Idle /\ StartsWith(ToLower(r.path), "/api/")

\* the request carries no token, in the header or in the query
NoToken(r) == r.header = Undef /\ r.query = Undef

\* the token string the request presents, "" when it presents none
presentedToken(r) ==
    IF IsStr(r.header) /\ r.header.s # "" THEN r.header.s
    ELSE IF IsStr(r.query) THEN r.query.s ELSE ""

\* the request gets as far as requireToken: its route exists, its body parsed
ReachesTokenCheck(r) == UnderApi(r) /\ Registered(r) /\ ~BodyFails(r)

\* C3: every request to a path under /api that presents no token is
\* answered 401 "missing token" by requireToken, whatever its path, method
\* and body.
C3_NoTokenIs401 ==
    [][(UnderApi(req') /\ NoToken(req')) =>
          /\ res'.status = 401
          /\ res'.error = "unauthorized: missing token"
          /\ res'.handler = "requireToken"]_vars

\* C4: a request that presents a token string not identical to config.token
\* is answered 401 "token mismatch".
C4_OtherTokenIs401 ==
    [][(/\ ReachesTokenCheck(req')
        /\ presentedToken(req') # ""
        /\ presentedToken(req') # config.token) =>
          /\ res'.status = 401
          /\ res'.error = "unauthorized: token mismatch"]_vars

\* C5: for every token mergeWithDefaults accepted into the configuration, a
\* request that presents exactly that token, in the header or in the query,
\* passes the token check.
C5_ConfiguredTokenPasses ==
    [][(ReachesTokenCheck(req') /\ presentedToken(req') = config.token) =>
          res'.handler # "requireToken"]_vars

(***************************************************************************)
(* Claims about the limiter, checked under SpecRate                        *)
(***************************************************************************)
\* the clients in the history
LoggedKeys == {rateLog.entries[i].key : i \in DOMAIN rateLog.entries}

\* the requests of client k, in order
EntriesOf(k) ==
    AtIndices(rateLog.entries, {i \in DOMAIN rateLog.entries : rateLog.entries[i].key = k})

\* the first i requests of a client went to one route inside one window
SameRouteOneWindow(L, i) ==
    \A j \in 1..i : L[j].path = L[1].path /\ L[j].t - L[1].t <= RateWindowMs

\* C9: with rateLimit = {windowMs: 1000, max: 5}, of the first six requests a
\* client sends to one route inside one window the first five are admitted
\* and the sixth is answered 429, whichever route it is.
C9_SixthRequestRejected ==
    \A k \in LoggedKeys :
        LET L == EntriesOf(k)
        IN \A i \in 1..Len(L) :
              (i <= RateMax + 1 /\ SameRouteOneWindow(L, i)) => (L[i].admitted <=> i <= RateMax)

\* C9, for the routes of cost 1: of the first six requests a client sends to
\* one such route inside one window the first five are admitted and the
\* sixth is answered 429.
C9_SixthRequestRejected_CostOne ==
    \A k \in LoggedKeys :
        LET L == EntriesOf(k)
        IN \A i \in 1..Len(L) :
              (i <= RateMax + 1 /\ SameRouteOneWindow(L, i) /\ L[1].cost = 1)
                  => (L[i].admitted <=> i <= RateMax)

\* a client has sent six requests to one route of cost 1 inside one window
\* and the sixth was answered 429
C9_Witness ==
    \E k \in LoggedKeys :
        LET L == EntriesOf(k)
        IN /\ Len(L) >= RateMax + 1
           /\ SameRouteOneWindow(L, RateMax + 1)
           /\ L[1].cost = 1
           /\ ~L[RateMax + 1].admitted
           /\ res.status = 429

\* the costs of the requests of L admitted at a time in [from, from + windowMs)
RECURSIVE AdmittedCost(_, _)
AdmittedCost(L, from) ==
    IF L = <<>> THEN 0
    ELSE (IF Head(L).admitted /\ Head(L).t >= from /\ Head(L).t < from + RateWindowMs
          THEN Head(L).cost ELSE 0) + AdmittedCost(Tail(L), from)

\* C10: the limiter is a sliding window: for every client and every interval
\* of length windowMs, the costs of the client's admitted requests inside
\* the interval sum to at most rateLimit.max.
C10_SlidingWindow ==
    \A k \in LoggedKeys :
        LET L == EntriesOf(k)
        IN \A i \in 1..Len(L) : AdmittedCost(L, L[i].t) <= RateMax

(***************************************************************************)
(* Claims about the window and the Retry-After header (SpecWindow)         *)
(***************************************************************************)
\* the step is a call of rateLimit: the history grows by one request that
\* passed requireToken
RateLimitStep == /\ Len(rateLog'.entries) = Len(rateLog.entries) + 1
                 /\ ~rateLog'.entries[Len(rateLog'.entries)].denied

\* the request the step's call of rateLimit counted
Counted == rateLog'.entries[Len(rateLog'.entries)]

\* the client's window is older than windowMs when the request arrives
WindowExpired(k) == k \in DOMAIN rateState /\ now - rateState[k].t0 > RateWindowMs

\* C11: for every client, route and permitted setting, a request that arrives
\* more than windowMs after the start of the client's window finds the
\* counter reset (it counts the request's cost alone) and is admitted.
C11_ExpiredWindowAdmits ==
    [][(RateLimitStep /\ WindowExpired(Counted.key)) =>
          /\ rateState'[Counted.key].n = Counted.cost
          /\ Counted.admitted
          /\ res'.status # 429]_vars

C13_InterruptedPersistKeepsFile ==
    [][(disk'.tmp # Absent /\ disk'.tmp # disk.tmp) => disk'.cfg = disk.cfg]_vars

\* a request's persist got as far as the temporary file, which holds the
\* change, and failed there: the config file does not hold it
C13_Witness ==
    /\ req # Idle
    /\ res.status = 500
    /\ proc.persist.got = "written"
    /\ disk.tmp = Saved(config)
    /\ disk.cfg # Saved(config)

\* the configurations the start-up on the files d is to end with: that of
\* the config file when it parses, else that of .bak when it parses, else
\* the defaults
StartConfigs(d) ==
    LET defaults(rnd) == {freshConfig(rnd), mergeWithDefaults(Obj(EmptyRec), rnd)}
        second(backup, rnd) == IF backup # Thrown THEN {backup} ELSE defaults(rnd)
        first(primary, rnd) == IF primary # Thrown THEN {primary}
                               ELSE second(readConfigFromPath(d.bak, rnd), rnd)
    IN UNION {first(readConfigFromPath(d.cfg, rnd), rnd) : rnd \in RandomTokens}

\* C14: start-up never aborts the process, and ends with the configuration
\* of the config file when it parses, otherwise of the .bak file when that
\* parses, otherwise with the defaults, whatever the two files hold and
\* whether or not the disk can be written.
C14_StartupNeverAborts ==
    /\ proc.state # "aborted"
    /\ proc.state = "up" => config \in StartConfigs(proc.boot)

\* C15: after a mutating request whose disk write failed (500 "config write
\* failed") the change is in effect, and the reads through the API return
\* the configuration as changed: GET /api/bootstrap answers with the tiles of
\* the configuration as it is, GET /api/tiles/:id with the tile as stored.
C15_ReadsReturnTheChange ==
    [][/\ (res' # Idle /\ res'.handler = "bootstrap" /\ res'.status = 200) =>
             res'.tiles = clientTiles(config'.tiles, res'.wowRunning)
       /\ (res' # Idle /\ res'.handler = "tile" /\ res'.status = 200) =>
             \E i \in DOMAIN config'.tiles : res'.tile = tileView(config'.tiles[i])]_vars

\* C16: while a handler is between its first edit of the configuration and
\* its persist call, no other request's handler runs: nothing is admitted,
\* answered or changed until the suspended handler has run on.
C16_NoHandlerInBetween ==
    [][((\E i \in DOMAIN pending : pending[i].edited) /\ Len(pending') >= Len(pending)) =>
          UNCHANGED <<req, res, config, rateState>>]_vars

(***************************************************************************)
(* Claims about the program resolver (SpecResolve)                         *)
(***************************************************************************)
\* resolveProgramPath has run and went to the index for its answer
ResolvedInIndex == resolveOut # Idle /\ resolveStage(resolveIn.s) = "index"

\* the query as resolveProgramPath compares it with the entries
LoweredQuery == ToLower(expandEnv(unquoteWrapped(safeTrimStr(resolveIn.s, MAX_PATH_LEN))))

\* what the text of the query adds to the score of the entry
QueryScore(x) == scoreProgram(x, LoweredQuery) - programSourcePriority(x.source)

\* the entry matches the query textually: by its label, its file name or a
\* key outright, by a key that holds the query's or is held by it, or by a
\* token of the query
MatchesQuery(x) ==
    \/ QueryScore(x) > 0
    \/ exactMatch(x, LoweredQuery)
    \/ exeNameMatch(x, LoweredQuery)
    \/ nearMatch(x, LoweredQuery)

\* two entries match the query, none scores higher, and the two score alike
AmbiguousQuery(entries) ==
    \E i, j \in DOMAIN entries :
        /\ i # j
        /\ MatchesQuery(entries[i]) /\ MatchesQuery(entries[j])
        /\ scoreProgram(entries[i], LoweredQuery) = scoreProgram(entries[j], LoweredQuery)
        /\ \A k \in DOMAIN entries :
              scoreProgram(entries[k], LoweredQuery) <= scoreProgram(entries[i], LoweredQuery)

\* C17: resolveProgramPath returns an entry of the program index only when
\* that entry matches the query textually (by key, label, file name or
\* token); when no entry matches the query, or the match is ambiguous, it
\* returns the empty string.
C17_OnlyTextualMatches ==
    ResolvedInIndex =>
        LET holds(entries) ==
                /\ \A i \in DOMAIN entries :
                      entries[i].path = resolveOut.s => MatchesQuery(entries[i])
                /\ (\A i \in DOMAIN entries : ~MatchesQuery(entries[i])) => resolveOut.s = ""
                /\ AmbiguousQuery(entries) => resolveOut.s = ""
        IN holds(programIndexCache.entries)

\* entry i of the index comes from a launcher's path and entry j from the
\* Start Menu, the query adds the same to the scores of both and matches
\* them, and i scores higher than every other entry
LauncherTie(entries, i, j) ==
    /\ entries[i].source = "launcherPath"
    /\ entries[j].source = "startMenu"
    /\ QueryScore(entries[i]) = QueryScore(entries[j])
    /\ QueryScore(entries[i]) > 0
    /\ \A k \in DOMAIN entries \ {i} :
          scoreProgram(entries[k], LoweredQuery) < scoreProgram(entries[i], LoweredQuery)

StoredTiles == {config'.tiles[i] : i \in DOMAIN config'.tiles}
               \ {config.tiles[i] : i \in DOMAIN config.tiles}

\* the profile and the page of the tile are in config.profiles, and its
\* launcherKey, when it has one, is a launcher of config.launchers
PlacedAndLaunchable(tile) ==
    /\ \E i \in DOMAIN config.profiles :
          /\ config.profiles[i].id = tile.profile
          /\ HasPage(config.profiles[i], tile.page)
    /\ Filled(tile, "launcherKey") => tile.launcherKey \in DOMAIN config.launchers

\* C19: POST /api/tiles/upsert stores a tile only if its profile and page
\* exist in config.profiles and its launcherKey, when given, exists in
\* config.launchers at that moment; otherwise it answers 400 and
\* config.tiles is unchanged.
C19_UpsertChecksReferences ==
    [][(IsUpsert(req') /\ res'.handler = "upsert") =>
          /\ \A tile \in StoredTiles : PlacedAndLaunchable(tile)
          /\ (res'.status # 200 /\ res'.error # "config write failed") =>
                res'.status = 400 /\ config'.tiles = config.tiles]_vars

\* C20: in every reachable state (after the load at start-up, after an
\* import, after any sequence of upserts and deletes) no two tiles of
\* config.tiles have the same id.
C20_UniqueTileIds ==
    \A i, j \in DOMAIN config.tiles : i # j => config.tiles[i].id # config.tiles[j].id

\* the server started on a config file with two tiles of the id c1, and an
\* upsert of c1 was stored over the one tile the load kept
C20_Witness ==
    /\ proc.boot.cfg.v.o.token = S(GoodToken)
    /\ "tiles" \in DOMAIN proc.boot.cfg.v.o
    /\ IsUpsert(req) /\ res.status = 200
    /\ res.tile.id = "c1" /\ res.tile.label = "Custom"
    /\ Cardinality({i \in DOMAIN config.tiles : config.tiles[i].id = "c1"}) = 1
    /\ config.tiles[FindTile(config.tiles, "c1")].label = "Custom"

\* the request is an upsert whose tile carries no id
IsIdLessUpsert(r) ==
    /\ IsUpsert(r)
    /\ IsObjLike(OptProp(r.body, "tile"))
    /\ Prop(OptProp(r.body, "tile"), "id") = Undef

TileIdsOf(tiles) == {tiles[i].id : i \in DOMAIN tiles}

\* C21: a POST /api/tiles/upsert whose tile carries no id adds exactly one
\* tile, whose generated id differs from every id already stored, and
\* leaves every existing tile unchanged.
C21_IdLessUpsertAddsOne ==
    [][(IsIdLessUpsert(req') /\ res'.handler = "upsert" /\ res'.status = 200) =>
          /\ Len(config'.tiles) = Len(config.tiles) + 1
          /\ res'.tile.id \notin TileIdsOf(config.tiles)
          /\ \A i \in DOMAIN config.tiles : config'.tiles[i] = config.tiles[i]]_vars

\* the builtin flag of the tile says whether its id is a built-in tile id
FlagMatchesId(tile) == tile.builtin <=> tile.id \in BuiltinTileIds

\* C22: in every reachable state a tile in config.tiles has builtin = true
\* exactly when its id is one of the built-in tile ids.
C22_BuiltinFlagMatchesId ==
    \A i \in DOMAIN config.tiles : FlagMatchesId(config.tiles[i])

(***************************************************************************)
(* Claims about requests that are refused (SpecStore)                      *)
(***************************************************************************)
\* the step answers a request with a 4xx status
AnsweredClientError == req' # Idle /\ res'.status >= 400 /\ res'.status <= 499

\* C23: every request that is answered with a 4xx status leaves the
\* in-memory configuration and the persisted config file exactly as they
\* were before the request.
C23_RefusedLeavesConfig ==
    [][AnsweredClientError => config' = config /\ disk'.cfg = disk.cfg]_vars

(***************************************************************************)
(* Claims about the tile list and concurrent handlers (SpecBuild)          *)
(***************************************************************************)
\* the step is a GET /api/bootstrap that arrives and is answered 200
BootstrapServed ==
    /\ req' # Idle /\ RouteIs(req', "GET", "/api/bootstrap")
    /\ rateState' # rateState
    /\ res'.handler = "bootstrap" /\ res'.status = 200

\* C24: once a tile or settings mutation has been answered, no later GET
\* /api/bootstrap returns a tile list computed from the configuration as it
\* was before that mutation, even when a tile-list build was suspended on a
\* process or icon probe while the mutation ran: a request that arrives
\* and is answered is given the list of the tiles config.tiles holds then.
C24_NoStaleTileList ==
    [][BootstrapServed => res'.tiles = clientTiles(config'.tiles, res'.wowRunning)]_vars

(***************************************************************************)
(* Claims about running tiles (SpecRun)                                    *)
(***************************************************************************)
\* the step is a POST /api/run that reaches its handler and names, by
\* tileId, a stored action tile whose action is in the whitelist
RunsActionTile ==
    /\ req' # Idle /\ RouteIs(req', "POST", "/api/run")
    /\ res'.handler = "run"
    /\ Trim(StrOr(OptProp(req'.body, "tileId"))) # ""
    /\ tileToRun(req'.body) # NoTile
    /\ tileToRun(req'.body).type = "action"
    /\ tileToRun(req'.body).action \in NAMED_ACTIONS

\* C25: every action tile that the validator accepts can be dispatched: for
\* every name in the named-action whitelist, running a tile with that
\* action through POST /api/run never fails as an unknown action, and when
\* it is answered 200 a process was started for it.
C25_ActionTilesDispatch ==
    [][RunsActionTile =>
          /\ ~StartsWith(res'.error, "Unbekannte Action")
          /\ res'.status = 200 => started' # <<>>]_vars

(***************************************************************************)
(* Claims about the files after a crash, checked under SpecBoot            *)
(***************************************************************************)
\* readConfigFromPath would read a configuration from the file: it is there,
\* it parses, and its root is an object
HoldsConfiguration(file) ==
    LET isConfig(raw) == raw # Thrown /\ raw.k = "obj"
    IN file # Absent /\ isConfig(parseJsonFile(file))

\* the process stopped during start-up: in the write of the fresh
\* configuration or in the normalization write
CrashedAtStartup == proc.state = "stopped"

\* C26: when the config file or its .bak held a configuration before
\* start-up and the process stopped at some point of the start-up, the config
\* file or its .bak holds a configuration afterwards.
C26_CrashKeepsAConfiguration ==
    (/\ CrashedAtStartup
     /\ HoldsConfiguration(proc.boot.cfg) \/ HoldsConfiguration(proc.boot.bak))
    => (HoldsConfiguration(disk.cfg) \/ HoldsConfiguration(disk.bak))

(***************************************************************************)
(* Claims about a client that waits out a 429, checked under SpecRetry     *)
(***************************************************************************)
\* C27: a client that was answered 429 with Retry-After = r, sent nothing for
\* r seconds and then sends one request has that request admitted.
C27_AdmittedAfterRetryAfter ==
    [][(WaitedOut /\ RateLimitStep) => (Counted.admitted /\ res'.status # 429)]_vars

(***************************************************************************)
(* Claims about requests that fail the token check, checked under          *)
(* SpecDenied                                                              *)
(***************************************************************************)
\* the step is a request that requireToken answers 401
DeniedStep == /\ Len(rateLog'.entries) = Len(rateLog.entries) + 1
              /\ rateLog'.entries[Len(rateLog'.entries)].denied

\* how many requests of client k failed the token check in the last windowMs
DeniedInWindow(k) ==
    Cardinality({i \in DOMAIN rateLog.entries :
                    /\ rateLog.entries[i].denied
                    /\ rateLog.entries[i].key = k
                    /\ now - rateLog.entries[i].t < RateWindowMs})

\* C28: requests that fail the token check count against the sender's rate
\* limit: once rateLimit.max requests of a client have failed the token
\* check inside one window, its next such request in that window is answered
\* 429.
C28_DeniedRequestsAreLimited ==
    [][(DeniedStep /\ DeniedInWindow(rateClientKey(req')) >= RateMax)
          => res'.status = 429]_vars

(***************************************************************************)
(* Claims about users behind one address, checked under SpecShared         *)
(***************************************************************************)
\* what is left of the budget of the client counted under key k: max less
\* the counter of its window, and all of max once the window is over
Remaining(k, table, at) ==
    IF k \in DOMAIN table /\ at - table[k].t0 <= RateWindowMs
    THEN MaxOf(0, RateMax - table[k].n) ELSE RateMax

\* the key rateLimit counts the requests of user under
KeyOf(user) == rateClientKey(SentBy(user, Authed("GET", "/api/health", Undef)))

\* C29: two users behind the same IP address have independent budgets: a
\* request of one of them leaves the budget remaining for the other as it
\* was.
C29_IndependentBudgets ==
    [][RateLimitStep =>
          \A u \in Users \ {req'.sender} :
              Remaining(KeyOf(u), rateState', now') = Remaining(KeyOf(u), rateState, now)]_vars

(***************************************************************************)
(* Claims about templates in stored tiles, checked under SpecTemplates     *)
(***************************************************************************)
\* the tile has no {{...}} in its target and none in its startIn
TemplateFree(tile) ==
    /\ Has(tile, "target") => ~hasTemplateSyntax(tile.target)
    /\ Has(tile, "startIn") => ~hasTemplateSyntax(tile.startIn)

\* the step is a POST /api/tiles/upsert that stored its tile
UpsertStored == IsUpsert(req') /\ res'.handler = "upsert" /\ res'.status = 200

\* C30: every tile stored through POST /api/tiles/upsert is free of {{...}}
\* template syntax in its target and in its startIn.
C30_StoredTilesTemplateFree ==
    [][UpsertStored =>
          /\ TemplateFree(res'.tile)
          /\ \A i \in DOMAIN config'.tiles :
                config'.tiles[i].id = res'.tile.id => TemplateFree(config'.tiles[i])]_vars
====
